---------------------------- MODULE Spec2Model ----------------------------
(***************************************************************************)
(* Tax-rate loaders of cactuscomply-taxrates against one relational store.  *)
(*                                                                         *)
(* The store holds four tables: jurisdictions, business_class_codes,       *)
(* rate_versions and rates.  Every loader (app.py's upload handler and the *)
(* scripts 001, 002, 003, 004, 004b) is a straight-line program; one run   *)
(* of a loader is one action, with the store calls that fail during the    *)
(* run given as an input of the run.                                       *)
(*                                                                         *)
(* Conventions                                                             *)
(*   - a date is the integer YYYYMMDD (same order as the ISO string);      *)
(*   - a rate is an integer in units of 1e-8 (0.024 is 2400000), so that   *)
(*     the division by 100 of a number written with 6 decimals is exact;   *)
(*   - SQL NULL and the empty string are both "";                          *)
(*   - a select without ORDER BY returns rows in id (insertion) order;     *)
(*   - rates.rate_version_id is a foreign key on rate_versions.id (the     *)
(*     scripts delete "rates first due to FK"): the store rejects a delete *)
(*     of versions that rate rows refer to;                                *)
(*   - display names of jurisdictions and state_code are not modelled.     *)
(***************************************************************************)
EXTENDS Integers, Sequences, FiniteSets, TLC

VARIABLES
    jurisdictions,         \* set of [id, level, city_code, region_code]
    business_class_codes,  \* set of [code, description]
    rate_versions,         \* set of [id, effective_date]
    rates,                 \* sequence of rate rows, in insertion order
    run,                   \* what the last loader run did and reported
    downloads,             \* the CSV files at hand (DOWNLOADS_DIR), never written
    procs,                 \* concurrent loader processes (SpecConc only)
    runs,                  \* loader runs so far
    parsed,                \* what a parse loop made of the file (SpecParse only)
    deleted                \* jurisdiction rows removed by hand (SpecIds only)

vars == <<jurisdictions, business_class_codes, rate_versions, rates, run,
         downloads, procs, runs, parsed, deleted>>

----------------------------------------------------------------------------
(* Bounds of the model *)

\* rows per input file
MaxRows == 2
\* loader runs in one behaviour
MaxRuns == 2
\* loader processes running against the store at the same time
NumProcs == 2
\* rows per insert call; the source uses 500, scaled so that a file of
\* MaxRows rows needs more than one call
BatchSize == 1

----------------------------------------------------------------------------
(* Generic helpers *)

Max(S) == CHOOSE x \in S : \A y \in S : y <= x
Min(S) == CHOOSE x \in S : \A y \in S : x <= y

RECURSIVE SeqOfSet(_)
\* the elements of a set of integers, ascending
SeqOfSet(S) == IF S = {} THEN <<>> ELSE <<Min(S)>> \o SeqOfSet(S \ {Min(S)})

----------------------------------------------------------------------------
(* The store *)

\* s is a record [jur, bcc, rv, rates]
Store == [jur |-> jurisdictions, bcc |-> business_class_codes,
          rv |-> rate_versions, rates |-> rates]

\* variant: the largest id itself, the "+ 1" forgotten
LargestId(T) == IF T = {} THEN 1 ELSE Max({r.id : r \in T})

\* select id from T order by id desc limit 1, then + 1 (or 1 on an empty table)
NextId(T) == IF T = {} THEN 1 ELSE Max({r.id : r \in T}) + 1

\* the failures of one run: the business codes, region codes and dates whose
\* write is rejected, and the ordinals of the rates insert calls rejected
NoFail == [bc |-> {}, jur |-> {}, rv |-> {}, rates |-> {}]


----------------------------------------------------------------------------
(* Input files *)

\* the calendar date y-m-d
Date(y, m, d) == y * 10000 + m * 100 + d

D1 == Date(2025, 1, 1)
D2 == Date(2026, 1, 1)
D3 == Date(2026, 3, 1)

\* a TaxRate cell: the number written, in units of 1e-6, with or without a
\* trailing percent sign; kind "bad" is text float() rejects
Rate(n, pct) == [kind |-> "num", n |-> n, pct |-> pct]

\* a RateStartDate cell: the date written and the pattern it is written in:
\* "ims" is M/D/Y 12:00:00 AM, "hm" is M/D/Y 0:00, "mdy" is M/D/Y, "mdy hms"
\* is M/D/Y 13:30:00, "iso" is Y-M-D, "bad" is text that holds no date
Start(d, fmt) == [d |-> d, fmt |-> fmt]

CsvRow(rc, bc, bn, rate, start) ==
    [RegionCode |-> rc, RegionName |-> "", BusinessCode |-> bc,
     BusinessCodesName |-> bn, TaxRate |-> rate, RateStartDate |-> start]

RowPX24 == CsvRow("PX", "011", "Restaurants", Rate(2400000, TRUE), Start(D1, "ims"))
RowPX25 == CsvRow("PX", "011", "Restaurants", Rate(2500000, FALSE), Start(D1, "hm"))
RowMAR  == CsvRow("MAR", "011", "", Rate(7000, FALSE), Start(D2, "mdy"))
RowTU   == CsvRow("TU", "011", "Restaurants", Rate(2300000, TRUE), Start(D3, "hm"))

Rows == {RowPX24, RowPX25, RowMAR, RowTU}

RECURSIVE SeqsUpTo(_, _)
SeqsUpTo(S, n) ==
    IF n = 0 THEN {<<>>}
    ELSE LET shorter == SeqsUpTo(S, n - 1)
         IN  shorter \cup {Append(q, x) : q \in {t \in shorter : Len(t) = n - 1}, x \in S}

\* the files a run may be given: up to MaxRows data rows under the header
Files == SeqsUpTo(Rows, MaxRows) \ {<<>>}

\* the data rows the files of one directory hold at most, taken together
MaxDirRows == 3

\* DOWNLOADS_DIR: the monthly file TPT_RATETABLE_ALL_<date>.csv and the two
\* files of HISTORICAL_CSVS, 'AZTaxesRpt - SpRates (1) (2).csv' and
\* 'AZTaxesRpt - SpRates.csv' (at most one row each; <<>> when the file
\* does not exist)
Directories ==
    {d \in [tpt : Files, date : {D3}, hist1 : SeqsUpTo(Rows, 1),
            hist2 : SeqsUpTo(Rows, 1)] :
        Len(d.tpt) + Len(d.hist1) + Len(d.hist2) <= MaxDirRows}

Dates == {D1, D2, D3}
RegionCodes == {r.RegionCode : r \in Rows}
BusinessCodes == {r.BusinessCode : r \in Rows}

----------------------------------------------------------------------------
(* Rate parsing *)

\* float(tax_rate.replace('%', '')) succeeds
IsFloat(t) == t.kind = "num"

\* float(tax_rate.replace('%', '')), then "if rate > 1: rate / 100.0":
\* the value in units of 1e-8
FloatRate(t) == IF t.n > 1000000 THEN t.n ELSE t.n * 100

\* x * 2^e modulo M, three doublings at a time (M at most 2 * 10^8, so
\* that x * 8 stays below 2^31)
RECURSIVE DoubleMod(_, _, _)
DoubleMod(x, e, M) ==
    IF e = 0 THEN x % M
    ELSE IF e >= 3 THEN DoubleMod((x * 8) % M, e - 3, M)
    ELSE DoubleMod((x * 2) % M, e - 1, M)

\* the largest k with unit * 2^k <= n: the binary exponent of n / unit
RECURSIVE BinaryExponent(_, _)
BinaryExponent(n, unit) ==
    IF n \div 2 >= unit THEN 1 + BinaryExponent(n \div 2, unit) ELSE 0

\* the smallest j with v * 2^j >= 10^8, for v >= 1
RECURSIVE BinaryShift(_)
BinaryShift(v) == IF v >= 100000000 THEN 0 ELSE 1 + BinaryShift(v * 2)

\* IEEE round-to-nearest-even of y / D to an integer m, given R = y mod 2D:
\* the error m * D - y
RoundingError(R, D) ==
    LET rem == R % D
    IN  IF rem * 2 < D THEN 0 - rem
        ELSE IF rem * 2 > D THEN D - rem
        ELSE IF R \div D = 1 THEN D - rem ELSE 0 - rem

\* rate = float(written) / 100.0 for the written number n * 1e-6 > 1: the
\* sign of (the double rate) - n * 1e-8.  float() gives the 53-bit m1 nearest
\* to n * 2^e / 10^6 (e = 52 - binary exponent), with error
\* e1 = m1 * 10^6 - n * 2^e; the division gives the 53-bit m2 nearest to
\* m1 * 2^s / 100 (s = 6 when n * 1e-8 >= 2^(k-6), else 7), with error
\* e2 = m2 * 100 - m1 * 2^s; the double minus n * 1e-8 has the sign of
\* e1 * 2^s + e2 * 10^6
DividedSide(n) ==
    LET k  == BinaryExponent(n, 1000000)
        N8 == DoubleMod(n % 200000000, 52 - k, 200000000)
        e1 == RoundingError(N8 % 2000000, 1000000)
        m1 == ((N8 + e1) % 200000000) \div 1000000
        s  == IF n \div (2 ^ k) >= 1562500 THEN 6 ELSE 7
        e2 == RoundingError(DoubleMod(m1, s, 200), 100)
    IN  e1 * (IF s = 6 THEN 64 ELSE 128) + e2 * 1000000

\* rate = float(written) for the written number v * 1e-8 <= 1, not divided:
\* the sign of (the double rate) - v * 1e-8
WrittenSide(v) ==
    RoundingError(DoubleMod(v % 200000000, 52 + BinaryShift(v), 200000000),
                  100000000)

\* round(x, 6) on a value in units of 1e-8.  round() rounds the double x
\* correctly: a value with 50 in its last two places goes the way its double
\* lies from the decimal half (a value above 0.01 was written as a
\* percentage and divided by 100), and to the even neighbour when the double
\* is the half itself (e.g. 0.0234375 = 3/128)
Round6Abs(v) ==
    LET q == v \div 100
        r == v % 100
        side == IF v > 1000000 THEN DividedSide(v) ELSE WrittenSide(v)
    IN  IF r > 50 \/ (r = 50 /\ (side > 0 \/ (side = 0 /\ q % 2 = 1)))
        THEN (q + 1) * 100 ELSE q * 100

Round6(v) == IF v < 0 THEN 0 - Round6Abs(0 - v) ELSE Round6Abs(v)

\* 004 and 004b: parse_rate; 0 for an empty cell and for a ValueError
parse_rate(t) ==
    IF t.kind = "empty" THEN 0
    ELSE IF ~IsFloat(t) THEN 0
    ELSE Round6(FloatRate(t))

\* variant: the number is taken as written, never as a percentage
InlineRateAsWritten(t) == IF IsFloat(t) THEN t.n * 100 ELSE 0

\* app.py, 003: the inline parse, without rounding; app.py takes 0.0 on a
\* ValueError, 003 drops the row
InlineRate(t) == IF IsFloat(t) THEN FloatRate(t) ELSE 0

----------------------------------------------------------------------------
(* Jurisdiction lookup *)

\* build_jurisdiction_cache: rows are visited in id order; each row is cached
\* under its city_code and under its region_code, later rows overwriting
CacheOf(J, code) ==
    LET hits == {j \in J : (j.city_code # "" /\ j.city_code = code)
                           \/ (j.region_code # "" /\ j.region_code = code)}
    IN  IF hits = {} THEN [id |-> 0, level |-> ""]
        ELSE LET j == CHOOSE x \in hits : x.id = Max({h.id : h \in hits})
             IN  [id |-> j.id, level |-> j.level]

\* 004, 004b: code -> (id, level); id 0 stands for "no entry"
build_jurisdiction_cache(J) == [c \in RegionCodes \cup {""} |-> CacheOf(J, c)]

\* variant: the lookup also matches region_code
ByAnyCode(J, code) ==
    SeqOfSet({j.id : j \in {x \in J : x.city_code = code \/ x.region_code = code}})

\* select id from jurisdictions where city_code = code: ids, ascending
ByCityCode(J, code) == SeqOfSet({j.id : j \in {x \in J : x.city_code = code}})

----------------------------------------------------------------------------
(* Business Code Registry *)

\* name or f'Business Code {code}'
Description(code, name) == IF name = "" THEN "Business Code " \o code ELSE name

\* upsert({'code': code, 'description': d}): insert, or replace the row of
\* that code
UpsertCode(B, code, d) ==
    {b \in B : b.code # code} \cup {[code |-> code, description |-> d]}

\* The (code, name) pairs of a run are upserted one by one, each failure
\* caught.  The pairs come from a Python set, so the order is not fixed: last
\* names, for each code, the name whose upsert is issued last.
UpsertPairs(B, pairs, last, failed) ==
    LET codes == {p[1] : p \in pairs} \ failed
    IN  {b \in B : b.code \notin codes}
        \cup {[code |-> c, description |-> Description(c, last[c])] : c \in codes}

\* the orders a set of pairs can be upserted in, as far as the result goes
LastChoices(pairs) ==
    {l \in [BusinessCodes -> {p[2] : p \in pairs} \cup {""}] :
        \A c \in BusinessCodes :
            IF c \in {p[1] : p \in pairs} THEN <<c, l[c]>> \in pairs ELSE l[c] = ""}

----------------------------------------------------------------------------
(* Rate Version Manager *)

\* select id from rate_versions where effective_date = d: ids, ascending
VersionsOf(V, d) == SeqOfSet({v.id : v \in {x \in V : x.effective_date = d}})

\* 004, 004b: get_or_create_rate_version.  The existing id, or max + 1
\* inserted; raised is TRUE when the insert is rejected.
get_or_create_rate_version(V, d, failed) ==
    IF VersionsOf(V, d) # <<>>
    THEN [id |-> VersionsOf(V, d)[1], rv |-> V, raised |-> FALSE, created |-> FALSE]
    ELSE IF d \in failed
    THEN [id |-> 0, rv |-> V, raised |-> TRUE, created |-> FALSE]
    ELSE [id |-> NextId(V),
          rv |-> V \cup {[id |-> NextId(V), effective_date |-> d]},
          raised |-> FALSE, created |-> TRUE]

----------------------------------------------------------------------------
(* Rate rows and batched insert *)

RateRow(v, j, code, county, city) ==
    [rate_version_id |-> v, jurisdiction_id |-> j, business_code |-> code,
     state_rate |-> 0, county_rate |-> county, city_rate |-> city]

\* "if jurisdiction_level == 'county': ... else: ..."
RoutedRow(v, j, level, code, rate) ==
    IF level = "county" THEN RateRow(v, j, code, rate, 0)
    ELSE RateRow(v, j, code, 0, rate)

\* {(r['jurisdiction_id'], r['business_code']) for r in existing.data}
ExistingKeys(R, v) ==
    {<<R[i].jurisdiction_id, R[i].business_code>> :
        i \in {k \in 1..Len(R) : R[k].rate_version_id = v}}

NumBatches(q) == (Len(q) + BatchSize - 1) \div BatchSize

\* rates_to_insert[i:i+batch_size] for the k-th batch
Batch(q, k) ==
    SubSeq(q, (k - 1) * BatchSize + 1,
           IF k * BatchSize < Len(q) THEN k * BatchSize ELSE Len(q))

\* the row lists of the insert calls of a batch loop over q, in call order
Batches(q) == [k \in 1..NumBatches(q) |-> Batch(q, k)]

\* the row lists of the first n insert calls of a batch loop over q
BatchesSent(q, n) == SubSeq(Batches(q), 1, n)

\* a loop that made no insert call
NoCalls == BatchesSent(<<>>, 0)

RECURSIVE OneByOne(_)
\* the row lists of insert calls that send the rows of q one at a time
OneByOne(q) ==
    IF q = <<>> THEN NoCalls ELSE <<<<Head(q)>>>> \o OneByOne(Tail(q))

RECURSIVE InsertBatchesCounted(_, _, _, _, _)
\* variant: the rows of a batch are counted before its call is made
InsertBatchesCounted(R, q, k, base, failed) ==
    IF k > NumBatches(q) THEN [rates |-> R, inserted |-> 0, errors |-> 0]
    ELSE IF base + k \in failed
    THEN LET rest == InsertBatchesCounted(R, q, k + 1, base, failed)
         IN  [rest EXCEPT !.errors = @ + 1,
                          !.inserted = @ + Len(Batch(q, k))]
    ELSE LET rest == InsertBatchesCounted(R \o Batch(q, k), q, k + 1, base, failed)
         IN  [rest EXCEPT !.inserted = @ + Len(Batch(q, k))]

RECURSIVE InsertBatches(_, _, _, _, _)
\* batches k..last of q, each inserted by one call inside try/except.  base
\* is the number of rates calls the run made before; the call of batch k
\* fails when base + k is in failed.  [rates, inserted, errors]
InsertBatches(R, q, k, base, failed) ==
    IF k > NumBatches(q) THEN [rates |-> R, inserted |-> 0, errors |-> 0]
    ELSE IF base + k \in failed
    THEN LET rest == InsertBatches(R, q, k + 1, base, failed)
         IN  [rest EXCEPT !.errors = @ + 1]
    ELSE LET rest == InsertBatches(R \o Batch(q, k), q, k + 1, base, failed)
         IN  [rest EXCEPT !.inserted = @ + Len(Batch(q, k))]

----------------------------------------------------------------------------
(* What a run leaves in `run` *)

\* The counters a script prints, and how its run went.  raised: the store
\* call whose exception left the loader function ("rv", "jur" or "rates"),
\* "" when none did.  success: the run reached its last line.
Counters ==
    [total |-> 0, inserted |-> 0, skipped |-> 0, missing |-> 0,
     versions_created |-> 0, insert_errors |-> 0, raised |-> "",
     success |-> TRUE]

\* The dict parse_csv_content returns: total_records, inserted_count,
\* updated_count, business_codes_processed, jurisdictions_processed, the
\* number of entries of errors, and success.  It has no counter of rows
\* skipped.  raised as in Counters: no exception leaves the function.
UploadResult ==
    [total |-> 0, inserted |-> 0, updated |-> 0, business_codes_processed |-> 0,
     jurisdictions_processed |-> 0, errors |-> 0, raised |-> "",
     success |-> TRUE]

Raised(call) == [Counters EXCEPT !.raised = call, !.success = FALSE]

\* the result of a loader operator: the store it leaves, the rate rows it
\* built for insertion (in order), its counters, and sent: the row lists it
\* handed to the rates insert calls it made, in call order
Outcome(s, staged, c) ==
    [store |-> s, staged |-> staged, c |-> c, sent |-> NoCalls]

\* op: the loader that ran last (its input is in downloads)
RunRecord(op, out) ==
    [op |-> op, c |-> out.c, staged |-> out.staged, sent |-> out.sent]

NoRun == [op |-> "none", c |-> Counters, staged |-> <<>>, sent |-> NoCalls]

----------------------------------------------------------------------------
(* 004_add_monthly_rates.py *)

\* the parse loop of add_rates_from_csv: rows with a region code, a business
\* code and a positive rate
Records004(csv) ==
    LET Records(kept) ==
            [i \in 1..Len(kept) |->
                [region_code |-> kept[i].RegionCode,
                 business_code |-> kept[i].BusinessCode,
                 rate |-> parse_rate(kept[i].TaxRate)]]
    IN  Records(SelectSeq(csv, LAMBDA row :
                    /\ row.RegionCode # ""
                    /\ row.BusinessCode # ""
                    /\ parse_rate(row.TaxRate) > 0))

\* business_codes.add((business_code, business_name)) of the kept rows
Pairs004(csv) ==
    {<<csv[i].BusinessCode, csv[i].BusinessCodesName>> :
        i \in {k \in 1..Len(csv) :
                /\ csv[k].RegionCode # ""
                /\ csv[k].BusinessCode # ""
                /\ parse_rate(csv[k].TaxRate) > 0}}

\* variant: the cache miss is not tested
KnownOrNot(cache, records) == records

\* the staging loop shared by 004 and 004b: records of one effective date
\* against the cache and the keys already stored for the version
Known(cache, records) ==
    SelectSeq(records, LAMBDA r : cache[r.region_code].id # 0)

Fresh(cache, keys, records) ==
    SelectSeq(Known(cache, records), LAMBDA r :
        <<cache[r.region_code].id, r.business_code>> \notin keys)

Staged(cache, keys, records, v) ==
    LET fresh == Fresh(cache, keys, records)
    IN  [i \in 1..Len(fresh) |->
            RoutedRow(v, cache[fresh[i].region_code].id,
                      cache[fresh[i].region_code].level,
                      fresh[i].business_code, fresh[i].rate)]

add_rates_from_csv(s, csv, date, last, fail) ==
    LET Load(cache, records, bcc, ver) ==
            LET keys    == ExistingKeys(s.rates, ver.id)
                staged  == Staged(cache, keys, records, ver.id)
                missing == Len(records) - Len(Known(cache, records))
                skipped == Len(Known(cache, records))
                               - Len(Fresh(cache, keys, records))
                ins     == InsertBatches(s.rates, staged, 1, 0, fail.rates)
            IN  IF ver.raised
                THEN Outcome([s EXCEPT !.bcc = bcc], <<>>,
                             [Raised("rv") EXCEPT !.total = Len(records)])
                ELSE [Outcome([s EXCEPT !.bcc = bcc, !.rv = ver.rv,
                                        !.rates = ins.rates],
                              staged,
                              [Counters EXCEPT !.total = Len(records),
                                               !.inserted = ins.inserted,
                                               !.skipped = skipped,
                                               !.missing = missing,
                                               !.insert_errors = ins.errors,
                                               !.versions_created =
                                                   IF ver.created THEN 1 ELSE 0])
                         EXCEPT !.sent = BatchesSent(staged, NumBatches(staged))]
    IN  Load(build_jurisdiction_cache(s.jur), Records004(csv),
             UpsertPairs(s.bcc, Pairs004(csv), last, fail.bc),
             get_or_create_rate_version(s.rv, date, fail.rv))

----------------------------------------------------------------------------
(* 004b_load_historical_county_rates.py *)

\* parse_date of 004b: " 0:00" and " 12:00:00 AM" are cut off, then
\* %m/%d/%Y, %Y-%m-%d, %m-%d-%Y, %Y/%m/%d are tried; 0 stands for None
parse_date_004b(start) ==
    IF start.fmt \in {"ims", "hm", "mdy", "iso"} THEN start.d ELSE 0

\* "Skip future dates (after 2026-02-04)"
FutureCutoff == Date(2026, 2, 4)

\* the rows of the parse loop that reach records_by_date
Kept004b(csv) ==
    SelectSeq(csv, LAMBDA row :
        /\ parse_date_004b(row.RateStartDate) # 0
        /\ parse_date_004b(row.RateStartDate) <= FutureCutoff
        /\ row.RegionCode # ""
        /\ row.BusinessCode # ""
        /\ parse_rate(row.TaxRate) > 0)

\* records_by_date[d]
RecordsByDate004b(csv, d) ==
    LET Records(kept) ==
            [i \in 1..Len(kept) |->
                [region_code |-> kept[i].RegionCode,
                 business_code |-> kept[i].BusinessCode,
                 rate |-> parse_rate(kept[i].TaxRate)]]
    IN  Records(SelectSeq(Kept004b(csv), LAMBDA row :
                    parse_date_004b(row.RateStartDate) = d))

DatesOf004b(csv) ==
    LET StartDates(kept) ==
            {parse_date_004b(kept[i].RateStartDate) : i \in 1..Len(kept)}
    IN  StartDates(Kept004b(csv))

Pairs004b(csv) ==
    LET Pairs(kept) ==
            {<<kept[i].BusinessCode, kept[i].BusinessCodesName>> :
                i \in 1..Len(kept)}
    IN  Pairs(Kept004b(csv))

RECURSIVE LoadDates004b(_, _, _, _, _)
\* "for effective_date in sorted(records_by_date.keys())" from dates[1] on.
\* acc is [rv, rates, staged, c, calls, sent]: the two tables, the rows staged so
\* far, the totals and the number of rates calls made so far.
LoadDates004b(acc, cache, csv, dates, fail) ==
    IF dates = <<>> THEN acc
    ELSE LET d       == Head(dates)
             records == RecordsByDate004b(csv, d)
             ver     == get_or_create_rate_version(acc.rv, d, fail.rv)
             keys    == ExistingKeys(acc.rates, ver.id)
             staged  == Staged(cache, keys, records, ver.id)
             known   == Len(Known(cache, records))
             ins     == InsertBatches(acc.rates, staged, 1, acc.calls, fail.rates)
         IN  IF ver.raised
             THEN [acc EXCEPT !.c.raised = "rv", !.c.success = FALSE]
             ELSE LoadDates004b(
                      [rv |-> ver.rv, rates |-> ins.rates,
                       staged |-> acc.staged \o staged,
                       calls |-> acc.calls + NumBatches(staged),
                       sent |-> acc.sent
                                    \o BatchesSent(staged, NumBatches(staged)),
                       c |-> [acc.c EXCEPT
                                !.inserted = @ + ins.inserted,
                                !.skipped = @ + (known - Len(staged)),
                                !.missing = @ + (Len(records) - known),
                                !.insert_errors = @ + ins.errors,
                                !.versions_created =
                                    @ + (IF ver.created THEN 1 ELSE 0)]],
                      cache, csv, Tail(dates), fail)

load_rates_from_csv(s, csv, last, fail) ==
    LET Loaded(bcc, acc) ==
            [Outcome([s EXCEPT !.bcc = bcc, !.rv = acc.rv, !.rates = acc.rates],
                     acc.staged, acc.c)
                EXCEPT !.sent = acc.sent]
    IN  Loaded(UpsertPairs(s.bcc, Pairs004b(csv), last, fail.bc),
               LoadDates004b(
                   [rv |-> s.rv, rates |-> s.rates, staged |-> <<>>, calls |-> 0,
                    sent |-> NoCalls,
                    c |-> [Counters EXCEPT !.total = Len(Kept004b(csv))]],
                   build_jurisdiction_cache(s.jur), csv,
                   SeqOfSet(DatesOf004b(csv)), fail))

----------------------------------------------------------------------------
(* 003_restore_and_sync_rates.py *)

\* the date patterns of parse_historical_csv: '%m/%d/%Y %I:%M:%S %p' and
\* '%m/%d/%Y %H:%M' on the whole cell, '%m/%d/%Y' on its first word, then
\* the M/D/Y split; 0 stands for a row that is skipped
parse_date_003(start) ==
    IF start.fmt \in {"ims", "hm", "mdy", "mdy hms"} THEN start.d ELSE 0

\* the rows parse_historical_csv turns into records: a start date that
\* parses and a TaxRate float() accepts
parse_historical_csv(csv) ==
    LET kept == SelectSeq(csv, LAMBDA row :
                    /\ parse_date_003(row.RateStartDate) # 0
                    /\ IsFloat(row.TaxRate))
    IN  [i \in 1..Len(kept) |->
            [region_code |-> kept[i].RegionCode,
             region_name |-> kept[i].RegionName,
             business_code |-> kept[i].BusinessCode,
             business_name |-> kept[i].BusinessCodesName,
             rate |-> FloatRate(kept[i].TaxRate),
             effective_date |-> parse_date_003(kept[i].RateStartDate)]]

\* min(unique_dates) in the summary print raises on a file without records
ParseRaises(csv) == parse_historical_csv(csv) = <<>>

HistKey(r) == <<r.effective_date, r.region_code, r.business_code>>

RECURSIVE FirstWins(_, _)
\* variant: "if key not in seen: seen[key] = r", the first record is kept
FirstWins(all, seen) ==
    IF all = <<>> THEN <<>>
    ELSE IF HistKey(Head(all)) \in seen THEN FirstWins(Tail(all), seen)
    ELSE <<Head(all)>> \o FirstWins(Tail(all), seen \cup {HistKey(Head(all))})

RECURSIVE LastWins(_, _)
\* main: "seen[key] = r" over all records, then list(seen.values()): one
\* record per key, at the position of the key's first record, holding the
\* key's last record
LastWins(all, seen) ==
    IF all = <<>> THEN <<>>
    ELSE LET key  == HistKey(Head(all))
             same == SelectSeq(all, LAMBDA r : HistKey(r) = key)
         IN  IF key \in seen THEN LastWins(Tail(all), seen)
             ELSE <<same[Len(same)]>> \o LastWins(Tail(all), seen \cup {key})

\* 003: build_jurisdiction_cache, code -> id; 0 stands for "no entry"
build_jurisdiction_cache_003(J) == [c \in RegionCodes \cup {""} |-> CacheOf(J, c).id]

\* 003: get_or_create_rate_version(effective_date, next_id); the store
\* rejects an id that is already a primary key
get_or_create_rate_version_003(V, d, next_id, failed) ==
    IF VersionsOf(V, d) # <<>>
    THEN [id |-> VersionsOf(V, d)[1], next_id |-> next_id, rv |-> V, raised |-> FALSE]
    ELSE IF d \in failed \/ next_id \in {v.id : v \in V}
    THEN [id |-> 0, next_id |-> next_id, rv |-> V, raised |-> TRUE]
    ELSE [id |-> next_id, next_id |-> next_id + 1,
          rv |-> V \cup {[id |-> next_id, effective_date |-> d]}, raised |-> FALSE]

\* ensure_jurisdiction_exists on a cache miss: max id + 1, level 'city'
ensure_jurisdiction_exists(J, code) ==
    J \cup {[id |-> NextId(J), level |-> "city", city_code |-> code,
             region_code |-> ""]}

RECURSIVE StageHistorical(_, _, _, _, _)
\* the staging loop of merge_historical_rates over the records of one date.
\* acc is [jur, cache, staged, raised]
StageHistorical(acc, records, keys, v, failed) ==
    IF records = <<>> \/ acc.raised THEN acc
    ELSE LET r    == Head(records)
             hit  == acc.cache[r.region_code] # 0
             jur  == IF hit THEN acc.jur
                     ELSE ensure_jurisdiction_exists(acc.jur, r.region_code)
             id   == IF hit THEN acc.cache[r.region_code] ELSE NextId(acc.jur)
             row  == RateRow(v, id, r.business_code, 0, r.rate)
         IN  IF ~hit /\ r.region_code \in failed
             THEN [acc EXCEPT !.raised = TRUE]
             ELSE StageHistorical(
                      [jur |-> jur,
                       cache |-> [acc.cache EXCEPT ![r.region_code] = id],
                       staged |-> IF <<id, r.business_code>> \in keys
                                  THEN acc.staged ELSE Append(acc.staged, row),
                       raised |-> FALSE],
                      Tail(records), keys, v, failed)

RECURSIVE InsertEach(_, _, _, _)
\* the fallback of merge_historical_rates: the rows of a rejected batch, one
\* insert each, failures passed over.  n: rates calls made before.
InsertEach(R, batch, n, failed) ==
    IF batch = <<>> THEN [rates |-> R, inserted |-> 0]
    ELSE IF n + 1 \in failed THEN InsertEach(R, Tail(batch), n + 1, failed)
    ELSE LET rest == InsertEach(Append(R, Head(batch)), Tail(batch), n + 1, failed)
         IN  [rest EXCEPT !.inserted = @ + 1]

RECURSIVE InsertBatches003(_, _, _, _, _)
\* the batch loop of merge_historical_rates from batch k on; n: rates calls
\* made before.  sent: the row lists of the calls, a rejected batch followed
\* by its rows one by one.  [rates, inserted, calls, sent]
InsertBatches003(R, q, k, n, failed) ==
    IF k > NumBatches(q)
    THEN [rates |-> R, inserted |-> 0, calls |-> n, sent |-> NoCalls]
    ELSE IF n + 1 \in failed
    THEN LET each == InsertEach(R, Batch(q, k), n + 1, failed)
             rest == InsertBatches003(each.rates, q, k + 1,
                                      n + 1 + Len(Batch(q, k)), failed)
         IN  [rest EXCEPT !.inserted = @ + each.inserted,
                          !.sent = <<Batch(q, k)>> \o OneByOne(Batch(q, k))
                                   \o @]
    ELSE LET rest == InsertBatches003(R \o Batch(q, k), q, k + 1, n + 1, failed)
         IN  [rest EXCEPT !.inserted = @ + Len(Batch(q, k)),
                          !.sent = <<Batch(q, k)>> \o @]

RECURSIVE MergeDates(_, _, _, _)
\* "for i, effective_date in enumerate(sorted_dates)" from dates[1] on.  acc
\* is [jur, bcc, cache, rv, rates, next_id, staged, calls, sent, c]
MergeDates(acc, records, dates, fail) ==
    IF dates = <<>> THEN acc
    ELSE LET d    == Head(dates)
             recs == SelectSeq(records, LAMBDA r : r.effective_date = d)
             ver  == get_or_create_rate_version_003(acc.rv, d, acc.next_id, fail.rv)
             keys == ExistingKeys(acc.rates, ver.id)
             st   == StageHistorical(
                         [jur |-> acc.jur, cache |-> acc.cache, staged |-> <<>>,
                          raised |-> FALSE],
                         recs, keys, ver.id, fail.jur)
             ins  == InsertBatches003(acc.rates, st.staged, 1, acc.calls, fail.rates)
             made == IF ver.next_id > ver.id THEN 1 ELSE 0
         IN  IF ver.raised
             THEN [acc EXCEPT !.c.raised = "rv", !.c.success = FALSE]
             ELSE IF st.raised
             THEN [acc EXCEPT !.jur = st.jur, !.cache = st.cache, !.rv = ver.rv,
                              !.next_id = ver.next_id,
                              !.staged = @ \o st.staged,
                              !.c.versions_created = @ + made,
                              !.c.raised = "jur", !.c.success = FALSE]
             ELSE MergeDates(
                      [acc EXCEPT !.jur = st.jur, !.cache = st.cache,
                                  !.rv = ver.rv, !.rates = ins.rates,
                                  !.next_id = ver.next_id,
                                  !.staged = @ \o st.staged,
                                  !.calls = ins.calls,
                                  !.c.versions_created = @ + made,
                                  !.c.inserted = @ + ins.inserted,
                                  !.sent = @ \o ins.sent],
                      records, Tail(dates), fail)

\* merge_historical_rates(historical_records, jurisdiction_cache, start_version_id)
\* on acc = [jur, bcc, cache, rv, rates, next_id, staged, calls, sent, c]
merge_historical_rates(acc, records, last, fail) ==
    LET pairs == {<<records[i].business_code, records[i].business_name>> :
                     i \in 1..Len(records)}
        bcc   == UpsertPairs(acc.bcc, pairs, last, fail.bc)
        dates == SeqOfSet({records[i].effective_date : i \in 1..Len(records)})
    IN  MergeDates([acc EXCEPT !.bcc = bcc, !.c.total = Len(records)],
                   records, dates, fail)

\* the row loop of sync_ador_csvs: a TaxRate float() accepts, a region code
\* and a business code
RecordsAdor(csv) ==
    LET kept == SelectSeq(csv, LAMBDA row :
                    /\ IsFloat(row.TaxRate)
                    /\ row.RegionCode # ""
                    /\ row.BusinessCode # "")
    IN  [i \in 1..Len(kept) |->
            [region_code |-> kept[i].RegionCode,
             business_code |-> kept[i].BusinessCode,
             rate |-> FloatRate(kept[i].TaxRate)]]

\* sync_ador_csvs(csv_dir, jurisdiction_cache, start_version_id) with one
\* TPT_RATETABLE_ALL_<date>.csv in the directory
sync_ador_csvs(acc, csv, date, fail) ==
    LET Sync(records, ver) ==
            LET keys   == ExistingKeys(acc.rates, ver.id)
                fresh  == SelectSeq(records, LAMBDA r :
                              /\ acc.cache[r.region_code] # 0
                              /\ <<acc.cache[r.region_code], r.business_code>>
                                     \notin keys)
                staged == [i \in 1..Len(fresh) |->
                              RateRow(ver.id, acc.cache[fresh[i].region_code],
                                      fresh[i].business_code, 0, fresh[i].rate)]
                ins    == InsertBatches(acc.rates, staged, 1, acc.calls,
                                        fail.rates)
            IN  IF ver.raised
                THEN [acc EXCEPT !.c.total = @ + Len(records),
                                 !.c.raised = "rv", !.c.success = FALSE]
                ELSE [acc EXCEPT !.rv = ver.rv, !.rates = ins.rates,
                                 !.next_id = ver.next_id,
                                 !.staged = @ \o staged,
                                 !.calls = @ + NumBatches(staged),
                                 !.c.total = @ + Len(records),
                                 !.c.inserted = @ + ins.inserted,
                                 !.c.insert_errors = @ + ins.errors,
                                 !.c.versions_created =
                                     @ + (IF ver.next_id > ver.id THEN 1 ELSE 0),
                                 !.sent = @ \o BatchesSent(staged,
                                                           NumBatches(staged))]
    IN  Sync(RecordsAdor(csv),
             get_or_create_rate_version_003(acc.rv, date, acc.next_id, fail.rv))

\* a file TPT_RATETABLE_ALL_<date>*.csv of the downloads directory: the date
\* of its name, the place of its path among the paths of that date in
\* sorted order, and its data rows
AdorFile(date, path, rows) == [date |-> date, path |-> path, rows |-> rows]

\* the place of a file in csv_files.sort(): tuples (effective_date, path)
SortKey(f) == f.date * 10 + f.path

\* csv_files after csv_files.sort(); dir is the set of files os.listdir gave
csv_files(dir) ==
    LET keys == SeqOfSet({SortKey(f) : f \in dir})
    IN  [i \in 1..Len(keys) |-> CHOOSE f \in dir : SortKey(f) = keys[i]]

RECURSIVE KeepLast(_)
\* variant: of the files of one date the last of the sorted list is kept
KeepLast(files) ==
    IF files = <<>> THEN <<>>
    ELSE IF \E i \in 2..Len(files) : files[i].date = Head(files).date
    THEN KeepLast(Tail(files))
    ELSE <<Head(files)>> \o KeepLast(Tail(files))

RECURSIVE KeepFirst(_, _)
\* "if date not in seen_dates: seen_dates.add(date); unique_files.append(...)"
\* over the sorted list
KeepFirst(files, seen_dates) ==
    IF files = <<>> THEN <<>>
    ELSE IF Head(files).date \in seen_dates
    THEN KeepFirst(Tail(files), seen_dates)
    ELSE <<Head(files)>>
             \o KeepFirst(Tail(files), seen_dates \cup {Head(files).date})

\* variant: one file per date, the last one
unique_files_last(dir) == KeepLast(csv_files(dir))

\* sync_ador_csvs: unique_files of the directory
unique_files(dir) == KeepFirst(csv_files(dir), {})

RECURSIVE SyncFiles(_, _, _)
\* "for effective_date, csv_path in unique_files" from files[1] on; an
\* exception of get_or_create_rate_version ends the loop.  opened: the
\* files the loop opened with open(csv_path), the one whose version insert
\* raised included
SyncFiles(acc, files, fail) ==
    IF files = <<>> \/ acc.c.raised # "" THEN acc
    ELSE SyncFiles([sync_ador_csvs(acc, Head(files).rows, Head(files).date, fail)
                       EXCEPT !.opened = Append(@, Head(files))],
                   Tail(files), fail)

\* sync_ador_csvs(csv_dir, jurisdiction_cache, start_version_id) on a
\* downloads directory that holds the files dir, as main() calls it
sync_ador_directory(s, dir, fail) ==
    SyncFiles([jur |-> s.jur, bcc |-> s.bcc,
               cache |-> build_jurisdiction_cache_003(s.jur),
               rv |-> s.rv, rates |-> s.rates, next_id |-> NextId(s.rv),
               staged |-> <<>>, calls |-> 0, sent |-> NoCalls, c |-> Counters,
               opened |-> <<>>],
              unique_files(dir), fail)

\* main() with --skip-backup --skip-historical on a downloads directory
\* that holds the files dir
main_003_ador(s, dir, fail) ==
    LET Ended(end) ==
            [Outcome([jur |-> end.jur, bcc |-> end.bcc, rv |-> end.rv,
                      rates |-> end.rates], end.staged, end.c)
                EXCEPT !.sent = end.sent]
    IN  Ended(sync_ador_directory(s, dir, fail))

\* main() with --skip-backup: hist are the HISTORICAL_CSVS that exist, in
\* order; csv is the monthly file of the downloads directory
main_003(s, skip_historical, skip_ador, hist, csv, date, last, fail) ==
    LET crash == \E i \in 1..Len(hist) : ParseRaises(hist[i])
        Merged(start, all) ==
            IF skip_historical \/ all = <<>> THEN start
            ELSE merge_historical_rates(start, LastWins(all, {}), last, fail)
        Synced(merged) ==
            IF skip_ador \/ merged.c.raised # "" THEN merged
            ELSE sync_ador_csvs(merged, csv, date, fail)
        Run(start) ==
            IF ~skip_historical /\ crash
            THEN [start EXCEPT !.c = Raised("parse")]
            ELSE Synced(Merged(start,
                     IF Len(hist) = 0 THEN <<>>
                     ELSE IF Len(hist) = 1 THEN parse_historical_csv(hist[1])
                     ELSE parse_historical_csv(hist[1])
                              \o parse_historical_csv(hist[2])))
        Ended(end) ==
            [Outcome([jur |-> end.jur, bcc |-> end.bcc, rv |-> end.rv,
                      rates |-> end.rates], end.staged, end.c)
                EXCEPT !.sent = end.sent]
    IN  Ended(Run([jur |-> s.jur, bcc |-> s.bcc,
                   cache |-> build_jurisdiction_cache_003(s.jur),
                   rv |-> s.rv, rates |-> s.rates, next_id |-> NextId(s.rv),
                   staged |-> <<>>, calls |-> 0, sent |-> NoCalls,
                   c |-> Counters]))

\* the (code, name) pairs merge_historical_rates upserts
Pairs003(hist) ==
    LET all == IF Len(hist) = 0 THEN <<>>
               ELSE IF Len(hist) = 1 THEN parse_historical_csv(hist[1])
               ELSE parse_historical_csv(hist[1]) \o parse_historical_csv(hist[2])
        unique == LastWins(all, {})
    IN  {<<unique[i].business_code, unique[i].business_name>> : i \in 1..Len(unique)}

----------------------------------------------------------------------------
(* app.py: the upload handler *)

\* the row loop of parse_csv_content: rates_data
RatesData(csv) ==
    LET kept == SelectSeq(csv, LAMBDA row :
                    /\ row.RegionCode # ""
                    /\ row.BusinessCode # ""
                    /\ InlineRate(row.TaxRate) > 0)
    IN  [i \in 1..Len(kept) |->
            [region_code |-> kept[i].RegionCode,
             business_code |-> kept[i].BusinessCode,
             business_name |-> kept[i].BusinessCodesName,
             state_rate |-> 0, county_rate |-> 0,
             city_rate |-> InlineRate(kept[i].TaxRate)]]

RECURSIVE FirstOccurrences(_, _, _)
\* "if code and code not in business_codes": the records of q that are the
\* first with their value of the field, in order
FirstOccurrences(q, field, seen) ==
    IF q = <<>> THEN <<>>
    ELSE IF Head(q)[field] \in seen THEN FirstOccurrences(Tail(q), field, seen)
    ELSE <<Head(q)>> \o FirstOccurrences(Tail(q), field, seen \cup {Head(q)[field]})

\* one upsert per distinct code, with the name of its first row; a failed
\* upsert is logged and the loop goes on
upsert_business_codes(B, data, failed) ==
    LET firsts == FirstOccurrences(data, "business_code", {})
        todo   == SelectSeq(firsts, LAMBDA r : r.business_code \notin failed)
        After[i \in 0..Len(todo)] ==
            IF i = 0 THEN B
            ELSE UpsertCode(After[i - 1], todo[i].business_code,
                            Description(todo[i].business_code, todo[i].business_name))
    IN  After[Len(todo)]

RECURSIVE UpsertJurisdictionsFrom(_, _, _, _)
\* the loop of upsert_jurisdictions over the distinct region codes; counter
\* is jurisdiction_id_counter
UpsertJurisdictionsFrom(J, codes, counter, failed) ==
    IF codes = <<>> THEN J
    ELSE LET code == Head(codes)
             existing == ByCityCode(J, code)
         IN  IF code \in failed
             THEN UpsertJurisdictionsFrom(J, Tail(codes), counter, failed)
             ELSE IF existing # <<>>
             THEN UpsertJurisdictionsFrom(
                      {IF j.id = existing[1] THEN [j EXCEPT !.level = "city"] ELSE j
                          : j \in J},
                      Tail(codes), counter, failed)
             ELSE UpsertJurisdictionsFrom(
                      J \cup {[id |-> counter, level |-> "city",
                               city_code |-> code, region_code |-> ""]},
                      Tail(codes), counter + 1, failed)

upsert_jurisdictions(J, data, failed) ==
    LET firsts == FirstOccurrences(data, "region_code", {})
        codes  == [i \in 1..Len(firsts) |-> firsts[i].region_code]
    IN  UpsertJurisdictionsFrom(J, codes, NextId(J), failed)

\* insert({'effective_date': d, 'loaded_at': now}): the store assigns the id
create_rate_version(V, d, failed) ==
    IF d \in failed THEN [id |-> 0, rv |-> V, raised |-> TRUE]
    ELSE [id |-> NextId(V), rv |-> V \cup {[id |-> NextId(V), effective_date |-> d]},
          raised |-> FALSE]

RECURSIVE UpsertTaxRatesFrom(_, _, _, _, _, _)
\* the loop of upsert_tax_rates from record i on; k is the ordinal of the
\* next rates call.  [rates, count, staged]
UpsertTaxRatesFrom(R, J, data, v, k, failed) ==
    IF data = <<>> THEN [rates |-> R, count |-> 0, staged |-> <<>>]
    ELSE LET r     == Head(data)
             found == ByCityCode(J, r.region_code)
             row   == [rate_version_id |-> v, jurisdiction_id |-> found[1],
                       business_code |-> r.business_code,
                       state_rate |-> r.state_rate,
                       county_rate |-> r.county_rate, city_rate |-> r.city_rate]
         IN  IF found = <<>>
             THEN UpsertTaxRatesFrom(R, J, Tail(data), v, k, failed)
             ELSE IF k \in failed
             THEN LET rest == UpsertTaxRatesFrom(R, J, Tail(data), v, k + 1, failed)
                  IN  [rest EXCEPT !.staged = <<row>> \o @]
             ELSE LET rest == UpsertTaxRatesFrom(Append(R, row), J, Tail(data),
                                                 v, k + 1, failed)
                  IN  [rest EXCEPT !.count = @ + 1, !.staged = <<row>> \o @]

\* the row carries no id, so the upsert on the primary key inserts it
upsert_tax_rates(R, J, data, v, failed) == UpsertTaxRatesFrom(R, J, data, v, 1, failed)

\* parse_csv_content(csv_content, effective_date, uploader)
parse_csv_content(s, csv, date, fail) ==
    LET data == RatesData(csv)
        bcc  == upsert_business_codes(s.bcc, data, fail.bc)
        jur  == upsert_jurisdictions(s.jur, data, fail.jur)
        ver  == create_rate_version(s.rv, date, fail.rv)
        up   == upsert_tax_rates(s.rates, jur, data, ver.id, fail.rates)
    IN  IF data = <<>>
        THEN Outcome(s, <<>>,
                     [UploadResult EXCEPT !.errors = 1, !.success = FALSE])
        ELSE IF ver.raised
        THEN Outcome([s EXCEPT !.bcc = bcc, !.jur = jur], <<>>,
                     [UploadResult EXCEPT !.errors = 1, !.success = FALSE])
        ELSE [Outcome([jur |-> jur, bcc |-> bcc, rv |-> ver.rv, rates |-> up.rates],
                     up.staged,
                     [UploadResult EXCEPT
                        !.total = Len(data), !.inserted = up.count,
                        !.business_codes_processed =
                            Cardinality({data[i].business_code :
                                            i \in 1..Len(data)} \ fail.bc),
                        !.jurisdictions_processed =
                            Cardinality({data[i].region_code :
                                            i \in 1..Len(data)} \ fail.jur)])
                 EXCEPT !.sent = OneByOne(up.staged)]

----------------------------------------------------------------------------
(* 002_load_jan2026_rates.py *)

\* parse_date of 002: '%m/%d/%Y %H:%M', then '%m/%d/%Y %I:%M:%S %p'; 0
\* stands for None
parse_date_002(start) == IF start.fmt \in {"hm", "ims"} THEN start.d ELSE 0

\* float(tax_rate) without removing '%': a cell with a percent sign raises
\* ValueError and counts as 0.0
Rate002(t) == IF IsFloat(t) /\ ~t.pct THEN FloatRate(t) ELSE 0

RECURSIVE InsertBatchesRaising(_, _, _, _, _)
\* a batch loop without try/except: the first rejected call ends it.
\* made: the insert calls issued.  [rates, raised, made]
InsertBatchesRaising(R, q, k, base, failed) ==
    IF k > NumBatches(q) THEN [rates |-> R, raised |-> FALSE, made |-> k - 1]
    ELSE IF base + k \in failed THEN [rates |-> R, raised |-> TRUE, made |-> k]
    ELSE InsertBatchesRaising(R \o Batch(q, k), q, k + 1, base, failed)

RECURSIVE EnsureJurisdictions002(_, _, _)
\* "Ensure jurisdictions exist" over the rows of one date.  acc is
\* [jur, lookup, raised]
EnsureJurisdictions002(acc, rows, failed) ==
    IF rows = <<>> \/ acc.raised THEN acc
    ELSE LET code == Head(rows).RegionCode
         IN  IF code = "" \/ acc.lookup[code].id # 0
             THEN EnsureJurisdictions002(acc, Tail(rows), failed)
             ELSE IF code \in failed THEN [acc EXCEPT !.raised = TRUE]
             ELSE EnsureJurisdictions002(
                      [jur |-> ensure_jurisdiction_exists(acc.jur, code),
                       lookup |-> [acc.lookup EXCEPT ![code] =
                                      [id |-> NextId(acc.jur), level |-> "city"]],
                       raised |-> FALSE],
                      Tail(rows), failed)

RECURSIVE EnsureCodes002(_, _, _)
\* "Ensure business codes exist": one upsert per row, failures passed over
EnsureCodes002(B, rows, failed) ==
    IF rows = <<>> THEN B
    ELSE LET code == Head(rows).BusinessCode
         IN  IF code = "" \/ code \in failed
             THEN EnsureCodes002(B, Tail(rows), failed)
             ELSE EnsureCodes002(
                      UpsertCode(B, code,
                                 Description(code, Head(rows).BusinessCodesName)),
                      Tail(rows), failed)

\* "Insert rates": the rows of one date whose region code is in the lookup
Staged002(lookup, rows, v) ==
    LET found == SelectSeq(rows, LAMBDA row : lookup[row.RegionCode].id # 0)
    IN  [i \in 1..Len(found) |->
            RoutedRow(v, lookup[found[i].RegionCode].id,
                      lookup[found[i].RegionCode].level,
                      found[i].BusinessCode, Rate002(found[i].TaxRate))]

RECURSIVE LoadDates002(_, _, _, _)
\* "for effective_date in new_dates" from dates[1] on.  acc is
\* [jur, lookup, bcc, rv, rates, staged, calls, c]
LoadDates002(acc, csv, dates, fail) ==
    IF dates = <<>> THEN acc
    ELSE LET d    == Head(dates)
             rows == SelectSeq(csv, LAMBDA row : parse_date_002(row.RateStartDate) = d)
             ens  == EnsureJurisdictions002(
                         [jur |-> acc.jur, lookup |-> acc.lookup, raised |-> FALSE],
                         rows, fail.jur)
             bcc  == EnsureCodes002(acc.bcc, rows, fail.bc)
             ver  == create_rate_version(acc.rv, d, fail.rv)
             st   == Staged002(ens.lookup, rows, ver.id)
             ins  == InsertBatchesRaising(acc.rates, st, 1, acc.calls, fail.rates)
         IN  IF ens.raised
             THEN [acc EXCEPT !.jur = ens.jur, !.c.raised = "jur",
                              !.c.success = FALSE]
             ELSE IF ver.raised
             THEN [acc EXCEPT !.jur = ens.jur, !.bcc = bcc, !.c.raised = "rv",
                              !.c.success = FALSE]
             ELSE IF ins.raised
             THEN [acc EXCEPT !.jur = ens.jur, !.bcc = bcc, !.rv = ver.rv,
                              !.rates = ins.rates, !.staged = @ \o st,
                              !.c.versions_created = @ + 1,
                              !.sent = @ \o BatchesSent(st, ins.made),
                              !.c.raised = "rates", !.c.success = FALSE]
             ELSE LoadDates002(
                      [acc EXCEPT !.jur = ens.jur, !.lookup = ens.lookup,
                                  !.bcc = bcc, !.rv = ver.rv, !.rates = ins.rates,
                                  !.staged = @ \o st,
                                  !.calls = @ + NumBatches(st),
                                  !.c.versions_created = @ + 1,
                                  !.c.inserted = @ + Len(st),
                                  !.sent = @ \o BatchesSent(st, ins.made)],
                      csv, Tail(dates), fail)

\* 002: load_csv_data(csv_path)
load_csv_data_002(s, csv, fail) ==
    LET dated == SelectSeq(csv, LAMBDA row : parse_date_002(row.RateStartDate) # 0)
        existing == {v.effective_date : v \in s.rv}
        new_dates == SeqOfSet({parse_date_002(dated[i].RateStartDate) :
                                  i \in 1..Len(dated)} \ existing)
        end == LoadDates002(
                   [jur |-> s.jur, lookup |-> build_jurisdiction_cache(s.jur),
                    bcc |-> s.bcc, rv |-> s.rv, rates |-> s.rates,
                    staged |-> <<>>, calls |-> 0, sent |-> NoCalls,
                    c |-> [Counters EXCEPT !.total = Len(dated)]],
                   csv, new_dates, fail)
    IN  [Outcome([jur |-> end.jur, bcc |-> end.bcc, rv |-> end.rv,
                  rates |-> end.rates], end.staged, end.c)
            EXCEPT !.sent = end.sent]

----------------------------------------------------------------------------
(* 001_load_historical_rates.py *)

\* truncate_tables(): every rates row, then every rate_versions row, each
\* loop inside its own try/except.  deletes_failed names the tables whose
\* delete call the store rejects; a delete of versions that rate rows still
\* refer to is rejected by the foreign key ("rates first due to FK").
truncate_tables(s, deletes_failed) ==
    LET R == IF "rates" \in deletes_failed THEN s.rates ELSE <<>>
        referred == {R[i].rate_version_id : i \in 1..Len(R)}
        V == IF "rate_versions" \in deletes_failed
                \/ referred \cap {v.id : v \in s.rv} # {}
             THEN s.rv ELSE {}
    IN  [s EXCEPT !.rates = R, !.rv = V]

\* parse_date of 001: '%m/%d/%Y %I:%M:%S %p' only; 0 stands for None
parse_date_001(start) == IF start.fmt = "ims" THEN start.d ELSE 0

RECURSIVE EnsureJurisdictions001(_, _, _)
\* "for region_code, region_name in all_regions": select by city_code, then
\* max id + 1 with level 'city'; an exception is printed and the loop goes on
EnsureJurisdictions001(J, codes, failed) ==
    IF codes = <<>> THEN J
    ELSE IF Head(codes) \in failed \/ ByCityCode(J, Head(codes)) # <<>>
    THEN EnsureJurisdictions001(J, Tail(codes), failed)
    ELSE EnsureJurisdictions001(ensure_jurisdiction_exists(J, Head(codes)),
                                Tail(codes), failed)

\* the (code, name) pairs of all_codes
Pairs001(csv) ==
    {<<csv[i].BusinessCode, csv[i].BusinessCodesName>> :
        i \in {k \in 1..Len(csv) : /\ parse_date_001(csv[k].RateStartDate) # 0
                                   /\ csv[k].BusinessCode # ""}}

\* the orders the set all_regions can be walked in
RegionOrders(csv) ==
    LET codes == {csv[i].RegionCode :
                     i \in {k \in 1..Len(csv) :
                               /\ parse_date_001(csv[k].RateStartDate) # 0
                               /\ csv[k].RegionCode # ""}}
    IN  {q \in SeqsUpTo(codes, MaxRows) :
            /\ Len(q) = Cardinality(codes)
            /\ {q[i] : i \in 1..Len(q)} = codes}

RECURSIVE LoadDates001(_, _, _, _, _)
\* "for effective_date in sorted(rates_by_date.keys())" from dates[1] on,
\* the body inside one try/except.  acc is [rv, rates, staged, calls, sent, c]
LoadDates001(acc, J, csv, dates, fail) ==
    IF dates = <<>> THEN acc
    ELSE LET d    == Head(dates)
             rows == SelectSeq(csv, LAMBDA row : parse_date_001(row.RateStartDate) = d)
             ver  == create_rate_version(acc.rv, d, fail.rv)
             st   == Staged002(build_jurisdiction_cache(J), rows, ver.id)
             ins  == InsertBatchesRaising(acc.rates, st, 1, acc.calls, fail.rates)
         IN  IF ver.raised THEN LoadDates001(acc, J, csv, Tail(dates), fail)
             ELSE LoadDates001(
                      [acc EXCEPT !.rv = ver.rv, !.rates = ins.rates,
                                  !.staged = @ \o st,
                                  !.calls = @ + ins.made,
                                  !.sent = @ \o BatchesSent(st, ins.made),
                                  !.c.versions_created = @ + 1,
                                  !.c.insert_errors = @ + (IF ins.raised THEN 1 ELSE 0),
                                  !.c.inserted = @ + (IF ins.raised THEN 0 ELSE Len(st))],
                      J, csv, Tail(dates), fail)

\* 001: load_csv_data(csv_path)
load_csv_data_001(s, csv, order, last, fail) ==
    LET dated == SelectSeq(csv, LAMBDA row : parse_date_001(row.RateStartDate) # 0)
        jur   == EnsureJurisdictions001(s.jur, order, fail.jur)
        bcc   == UpsertPairs(s.bcc, Pairs001(csv), last, fail.bc)
        dates == SeqOfSet({parse_date_001(dated[i].RateStartDate) : i \in 1..Len(dated)})
        end   == LoadDates001([rv |-> s.rv, rates |-> s.rates, staged |-> <<>>,
                               calls |-> 0, sent |-> NoCalls,
                               c |-> [Counters EXCEPT !.total = Len(dated)]],
                              jur, csv, dates, fail)
    IN  [Outcome([jur |-> jur, bcc |-> bcc, rv |-> end.rv, rates |-> end.rates],
                 end.staged, end.c)
            EXCEPT !.sent = end.sent]

\* 001: main().  found: the file of csv_path exists; open() raises after the
\* tables were truncated when it does not.
main_001(s, found, csv, deletes_failed, order, last, fail) ==
    IF found
    THEN load_csv_data_001(truncate_tables(s, deletes_failed), csv, order, last, fail)
    ELSE Outcome(truncate_tables(s, deletes_failed), <<>>, Raised("open"))

----------------------------------------------------------------------------
(* Command lines: main() of 003, 004 and 004b *)

\* A backup file.  blocks tells what parse_backup_sql finds in it: "rows"
\* when the COPY blocks of rate_versions and rates hold the rows given;
\* "empty" for a dump of empty tables, where each COPY header is followed by
\* the closing '\.' at once; "none" for a file without a COPY block of
\* either table
Backup(blocks, versions, rows) ==
    [blocks |-> blocks, rate_versions |-> versions, rates |-> rows]

\* parse_backup_sql(backup_path).  The pattern
\* 'COPY public\.rate_versions.*?FROM stdin;\n(.*?)\n\\\.' needs a line
\* between the header and '\.': on an empty block it runs on to the '\.' of
\* the next block and int() raises ValueError on the first line it took,
\* '\.' itself.  Without a match both lists stay empty.
\* [raised, rate_versions, rates]
parse_backup_sql(file) ==
    IF file.blocks = "empty"
    THEN [raised |-> TRUE, rate_versions |-> <<>>, rates |-> <<>>]
    ELSE IF file.blocks = "none"
    THEN [raised |-> FALSE, rate_versions |-> <<>>, rates |-> <<>>]
    ELSE [raised |-> FALSE, rate_versions |-> file.rate_versions,
          rates |-> file.rates]

RECURSIVE InsertVersions(_, _, _)
\* "for rv in rate_versions: insert({'id': ..., 'effective_date': ...})",
\* without try/except.  [rv, raised]
InsertVersions(V, versions, failed) ==
    IF versions = <<>> THEN [rv |-> V, raised |-> FALSE]
    ELSE IF Head(versions).effective_date \in failed
            \/ Head(versions).id \in {v.id : v \in V}
    THEN [rv |-> V, raised |-> TRUE]
    ELSE InsertVersions(V \cup {Head(versions)}, Tail(versions), failed)

\* truncate_and_restore_backup(rate_versions, rates): no call is guarded,
\* the first rejected one ends the run; the rows of the dump are inserted as
\* they are.  calls: the rates insert calls made.  [store, calls, raised]
truncate_and_restore_backup(s, backup, deletes_failed, fail) ==
    LET vers == InsertVersions({}, backup.rate_versions, fail.rv)
        ins  == InsertBatchesRaising(<<>>, backup.rates, 1, 0, fail.rates)
    IN  IF "rates" \in deletes_failed
        THEN [store |-> s, calls |-> 0, raised |-> "delete"]
        ELSE IF "rate_versions" \in deletes_failed
        THEN [store |-> [s EXCEPT !.rates = <<>>], calls |-> 0, raised |-> "delete"]
        ELSE IF vers.raised
        THEN [store |-> [s EXCEPT !.rates = <<>>, !.rv = vers.rv], calls |-> 0,
              raised |-> "rv"]
        ELSE IF ins.raised
        THEN [store |-> [s EXCEPT !.rates = ins.rates, !.rv = vers.rv],
              calls |-> ins.made, raised |-> "rates"]
        ELSE [store |-> [s EXCEPT !.rates = ins.rates, !.rv = vers.rv],
              calls |-> NumBatches(backup.rates), raised |-> ""]

\* variant: the restore runs whatever --skip-backup says
main_003_restoring(s, skip_backup, backup_found, backup, deletes_failed, skip_historical, skip_ador, hist, csv, date, last, fail) ==
    LET dump == parse_backup_sql(backup)
        restored == truncate_and_restore_backup(s, dump, deletes_failed, fail)
        sent == BatchesSent(dump.rates, restored.calls)
        later == [fail EXCEPT !.rates = {k - restored.calls :
                                            k \in {n \in @ : n > restored.calls}}]
        out == main_003(restored.store, skip_historical, skip_ador, hist, csv,
                        date, last, later)
    IN  IF ~backup_found THEN Outcome(s, <<>>, Raised("backup"))
        ELSE IF dump.raised THEN Outcome(s, <<>>, Raised("backup parse"))
        ELSE IF restored.raised # ""
        THEN [Outcome(restored.store, <<>>, Raised(restored.raised))
                 EXCEPT !.sent = sent]
        ELSE IF dump.rate_versions = <<>>
        THEN [Outcome(restored.store, <<>>, Raised("max")) EXCEPT !.sent = sent]
        ELSE [out EXCEPT !.sent = sent \o @]

\* 003: main() from "if not args.skip_backup" on.  backup_found: the file
\* of --backup-path exists.  parse_backup_sql runs before the first delete,
\* so its exception leaves the store as it was; max() of no version ids
\* raises after the tables were truncated.  The rates calls of the restore
\* count for the store, so the calls that fail later are counted from there.
main_003_backup(s, skip_backup, backup_found, backup, deletes_failed, skip_historical, skip_ador, hist, csv, date, last, fail) ==
    LET dump == parse_backup_sql(backup)
        restored == truncate_and_restore_backup(s, dump, deletes_failed, fail)
        sent == BatchesSent(dump.rates, restored.calls)
        later == [fail EXCEPT !.rates = {k - restored.calls :
                                            k \in {n \in @ : n > restored.calls}}]
        out == main_003(restored.store, skip_historical, skip_ador, hist, csv,
                        date, last, later)
    IN  IF skip_backup
        THEN main_003(s, skip_historical, skip_ador, hist, csv, date, last, fail)
        ELSE IF ~backup_found THEN Outcome(s, <<>>, Raised("backup"))
        ELSE IF dump.raised THEN Outcome(s, <<>>, Raised("backup parse"))
        ELSE IF restored.raised # ""
        THEN [Outcome(restored.store, <<>>, Raised(restored.raised))
                 EXCEPT !.sent = sent]
        ELSE IF dump.rate_versions = <<>>
        THEN [Outcome(restored.store, <<>>, Raised("max")) EXCEPT !.sent = sent]
        ELSE [out EXCEPT !.sent = sent \o @]

\* variant: the inputs are looked at after the load
main_004_unchecked(s, csv_input, csv, date, last, fail) ==
    LET Checked(out) ==
            IF csv_input = "absent" THEN [out EXCEPT !.c = Raised("file")]
            ELSE IF csv_input = "undated" THEN [out EXCEPT !.c = Raised("filename")]
            ELSE out
    IN  Checked(add_rates_from_csv(s, csv, date, last, fail))

\* 004: main().  csv_input is the argument: "absent" names no file,
\* "undated" a file whose name holds no 8 digits, "dated" the file
\* TPT_RATETABLE_ALL_<date>.csv of the directory
main_004(s, csv_input, csv, date, last, fail) ==
    IF csv_input = "absent" THEN Outcome(s, <<>>, Raised("file"))
    ELSE IF csv_input = "undated" THEN Outcome(s, <<>>, Raised("filename"))
    ELSE add_rates_from_csv(s, csv, date, last, fail)

\* 004b: main() with a path argument; only os.path.isfile(csv_path) is
\* tested, the name of the file is not looked at
main_004b(s, csv_input, csv, last, fail) ==
    IF csv_input = "absent" THEN Outcome(s, <<>>, Raised("file"))
    ELSE load_rates_from_csv(s, csv, last, fail)

\* 004b: main() from the argument loop on.  verify: --verify is among the
\* arguments; csv_input "none": no other argument.  With --verify alone
\* verify_county_coverage() reads the store; without any argument the usage
\* is printed; with a path the load is called with verify_only=False
\* whatever the flag
main_004b_args(s, verify, csv_input, csv, last, fail) ==
    IF verify /\ csv_input = "none" THEN Outcome(s, <<>>, Counters)
    ELSE IF csv_input = "none" THEN Outcome(s, <<>>, Raised("usage"))
    ELSE main_004b(s, csv_input, csv, last, fail)

\* 003: main() from parse_args() on.  With --verify-only verify_coverage()
\* selects from the four tables and main returns
main_003_args(s, verify_only, skip_backup, backup_found, backup, deletes_failed, skip_historical, skip_ador, hist, csv, date, last, fail) ==
    IF verify_only THEN Outcome(s, <<>>, Counters)
    ELSE main_003_backup(s, skip_backup, backup_found, backup, deletes_failed,
                         skip_historical, skip_ador, hist, csv, date, last, fail)

----------------------------------------------------------------------------
(* Initial states and runs *)

\* The reference jurisdictions a deployed store is seeded with: a county,
\* keyed by region_code, and a city, keyed by city_code.
SeedJurisdictions ==
    {[id |-> 1, level |-> "county", city_code |-> "", region_code |-> "MAR"],
     [id |-> 2, level |-> "city", city_code |-> "PX", region_code |-> ""]}

\* store failures a run may meet
FailModes ==
    {NoFail,
     [NoFail EXCEPT !.rates = {1}],
     [NoFail EXCEPT !.rates = {2}],
     [NoFail EXCEPT !.rv = Dates],
     [NoFail EXCEPT !.jur = RegionCodes],
     [NoFail EXCEPT !.bc = BusinessCodes]}

Init ==
    /\ jurisdictions \in {{}, SeedJurisdictions}
    /\ business_class_codes = {}
    /\ rate_versions = {}
    /\ rates = <<>>
    /\ run = NoRun
    /\ downloads \in Directories
    /\ procs = <<>>
    /\ runs = 0
    /\ parsed = <<>>
    /\ deleted = {}

\* another loader run may start
Room == runs < MaxRuns

Commit(op, out) ==
    /\ jurisdictions' = out.store.jur
    /\ business_class_codes' = out.store.bcc
    /\ rate_versions' = out.store.rv
    /\ rates' = out.store.rates
    /\ run' = RunRecord(op, out)
    /\ runs' = runs + 1
    /\ UNCHANGED <<downloads, procs, parsed, deleted>>

\* python scripts/004_add_monthly_rates.py TPT_RATETABLE_ALL_MMDDYYYY.csv
AddMonthlyRates ==
    \E fail \in FailModes :
        \E last \in LastChoices(Pairs004(downloads.tpt)) :
            /\ Room
            /\ Commit("004",
                      add_rates_from_csv(Store, downloads.tpt, downloads.date,
                                         last, fail))

\* python scripts/004b_load_historical_county_rates.py <csv_file>
LoadHistoricalCountyRates ==
    \E fail \in FailModes :
        \E last \in LastChoices(Pairs004b(downloads.tpt)) :
            /\ Room
            /\ Commit("004b", load_rates_from_csv(Store, downloads.tpt, last, fail))

\* the HISTORICAL_CSVS that exist
Historical ==
    (IF downloads.hist1 = <<>> THEN <<>> ELSE <<downloads.hist1>>)
        \o (IF downloads.hist2 = <<>> THEN <<>> ELSE <<downloads.hist2>>)

\* python restore_and_sync_rates.py --skip-backup [--skip-historical] [--skip-ador]
RestoreAndSync ==
    \E fail \in FailModes, skip_historical \in BOOLEAN, skip_ador \in BOOLEAN :
        \E last \in LastChoices(Pairs003(Historical)) :
            /\ Room
            /\ Commit(IF skip_historical
                      THEN (IF skip_ador THEN "003" ELSE "003a")
                      ELSE (IF skip_ador THEN "003h" ELSE "003ha"),
                      main_003(Store, skip_historical, skip_ador, Historical,
                               downloads.tpt, downloads.date, last, fail))

\* python scripts/002_load_jan2026_rates.py
LoadJan2026Rates ==
    \E fail \in FailModes :
        /\ Room
        /\ Commit("002", load_csv_data_002(Store, downloads.tpt, fail))

\* POST /upload with the monthly file and its date in the form
Upload ==
    \E fail \in FailModes :
        /\ Room
        /\ Commit("app",
                  parse_csv_content(Store, downloads.tpt, downloads.date, fail))

Next ==
    \/ AddMonthlyRates
    \/ LoadHistoricalCountyRates
    \/ RestoreAndSync
    \/ LoadJan2026Rates
    \/ Upload

Spec == Init /\ [][Next]_vars

----------------------------------------------------------------------------
(* Two loaders at once: the store calls of id allocation, one step each *)

Procs == 1..NumProcs

\* pc: "start" before the loader has built its jurisdiction cache, "idle"
\* before the call, "select" before the lookup by effective_date, "max"
\* before the read of the largest id, "insert" before the insert, "done"
\* after it, "rejected" when the store refused the insert.  cache: the codes
\* the loader's own cache dict has an entry for.  alone: no other process
\* was inside such a call at any time during this one.
StartProc ==
    [pc |-> "start", table |-> "", date |-> 0, code |-> "", new_id |-> 0,
     cache |-> {}, alone |-> TRUE]

InCall(q) == procs[q].pc \in {"select", "max", "insert"}

\* the ids of the table process p allocates in
IdsFor(p) ==
    IF procs[p].table = "rate_versions" THEN {v.id : v \in rate_versions}
    ELSE {j.id : j \in jurisdictions}

\* process p moves to record next; every other process inside a call has
\* then shared the store with p
Step(p, next) ==
    procs' = [q \in Procs |->
                 IF q = p THEN next
                 ELSE IF InCall(q) THEN [procs[q] EXCEPT !.alone = FALSE]
                 ELSE procs[q]]

\* what no step of id allocation writes
Untouched ==
    UNCHANGED <<business_class_codes, rates, run, downloads, runs, parsed,
                deleted>>

\* 003 main: jurisdiction_cache = build_jurisdiction_cache(), read from the
\* store once when the loader starts
BuildJurisdictionCache(p) ==
    /\ procs[p].pc = "start"
    /\ Step(p, [procs[p] EXCEPT !.pc = "idle",
                    !.cache = {c \in RegionCodes :
                                  CacheOf(jurisdictions, c).id # 0}])
    /\ UNCHANGED <<jurisdictions, rate_versions>>
    /\ Untouched

\* 004: get_or_create_rate_version(effective_date) is entered
CallGetOrCreateRateVersion(p, d) ==
    /\ procs[p].pc = "idle"
    /\ Step(p, [procs[p] EXCEPT !.pc = "select", !.table = "rate_versions",
                                !.date = d,
                                !.alone = \A q \in Procs \ {p} : ~InCall(q)])
    /\ UNCHANGED <<jurisdictions, rate_versions>>
    /\ Untouched

\* 004: select id from rate_versions where effective_date = d
SelectExisting(p) ==
    /\ procs[p].pc = "select"
    /\ Step(p, IF VersionsOf(rate_versions, procs[p].date) # <<>>
               THEN [procs[p] EXCEPT !.pc = "done",
                         !.new_id = VersionsOf(rate_versions, procs[p].date)[1]]
               ELSE [procs[p] EXCEPT !.pc = "max"])
    /\ UNCHANGED <<jurisdictions, rate_versions>>
    /\ Untouched

\* 003: ensure_jurisdiction_exists(region_code, ...) goes past
\* "if region_code in cache": the test is on the cache dict the loader built
\* when it started, whatever the store holds by now
CallEnsureJurisdictionExists(p, code) ==
    /\ procs[p].pc = "idle"
    /\ code \notin procs[p].cache
    /\ Step(p, [procs[p] EXCEPT !.pc = "max", !.table = "jurisdictions",
                                !.code = code,
                                !.alone = \A q \in Procs \ {p} : ~InCall(q)])
    /\ UNCHANGED <<jurisdictions, rate_versions>>
    /\ Untouched

\* select id order by id desc limit 1; new_id = max + 1
ReadMaxId(p) ==
    /\ procs[p].pc = "max"
    /\ Step(p, [procs[p] EXCEPT !.pc = "insert",
                    !.new_id = IF procs[p].table = "rate_versions"
                               THEN NextId(rate_versions)
                               ELSE NextId(jurisdictions)])
    /\ UNCHANGED <<jurisdictions, rate_versions>>
    /\ Untouched

\* insert({'id': new_id, ...}); the store refuses an id it already holds
InsertWithId(p) ==
    /\ procs[p].pc = "insert"
    /\ Untouched
    /\ IF procs[p].new_id \in IdsFor(p)
       THEN /\ Step(p, [procs[p] EXCEPT !.pc = "rejected"])
            /\ UNCHANGED <<jurisdictions, rate_versions>>
       ELSE /\ Step(p, [procs[p] EXCEPT !.pc = "done",
                            !.cache = IF procs[p].table = "rate_versions"
                                      THEN @ ELSE @ \cup {procs[p].code}])
            /\ IF procs[p].table = "rate_versions"
               THEN /\ rate_versions' = rate_versions \cup
                           {[id |-> procs[p].new_id,
                             effective_date |-> procs[p].date]}
                    /\ UNCHANGED jurisdictions
               ELSE /\ jurisdictions' = jurisdictions \cup
                           {[id |-> procs[p].new_id, level |-> "city",
                             city_code |-> procs[p].code, region_code |-> ""]}
                    /\ UNCHANGED rate_versions

InitConc ==
    /\ jurisdictions \in {{}, SeedJurisdictions}
    /\ business_class_codes = {}
    /\ rate_versions = {}
    /\ rates = <<>>
    /\ run = NoRun
    /\ downloads = [tpt |-> <<RowPX24>>, date |-> D3, hist1 |-> <<>>,
                    hist2 |-> <<>>]
    /\ procs = [p \in Procs |-> StartProc]
    /\ runs = 0
    /\ parsed = <<>>
    /\ deleted = {}

NextConc ==
    \/ \E p \in Procs : BuildJurisdictionCache(p)
    \/ \E p \in Procs, d \in Dates : CallGetOrCreateRateVersion(p, d)
    \/ \E p \in Procs : SelectExisting(p)
    \/ \E p \in Procs, code \in RegionCodes :
           CallEnsureJurisdictionExists(p, code)
    \/ \E p \in Procs : ReadMaxId(p)
    \/ \E p \in Procs : InsertWithId(p)

SpecConc == InitConc /\ [][NextConc]_vars

----------------------------------------------------------------------------
(* The scripts as run from the command line *)

\* a dump taken of a store that held the city PX under id 2: one version
\* and one rate row of that jurisdiction
BackupJan26 ==
    Backup("rows", <<[id |-> 1, effective_date |-> D1]>>,
           <<RateRow(1, 2, "011", 0, 2600000)>>)

\* the backup files: the dump with rows, a dump of empty tables, and a file
\* that holds no COPY block of rate_versions or rates
Backups == {BackupJan26, Backup("empty", <<>>, <<>>), Backup("none", <<>>, <<>>)}

\* the delete calls a truncation may see rejected
DeleteModes == {{}, {"rates"}, {"rate_versions"}}

\* what the file argument of a command line can name
CsvInputs == {"absent", "undated", "dated"}

InitMain ==
    /\ jurisdictions \in {{}, SeedJurisdictions}
    /\ business_class_codes = {}
    /\ rate_versions = {}
    /\ rates = <<>>
    /\ run = NoRun
    /\ downloads \in {d \in [tpt : Files, date : {D3},
                            hist1 : SeqsUpTo(Rows, 1), hist2 : {<<>>},
                            backup : Backups] :
                         Len(d.tpt) + Len(d.hist1) <= MaxRows}
    /\ procs = <<>>
    /\ runs = 0
    /\ parsed = <<>>
    /\ deleted = {}

\* python scripts/001_load_historical_rates.py
Main001 ==
    \E found \in BOOLEAN, deletes_failed \in DeleteModes :
      \E fail \in (IF found THEN FailModes ELSE {NoFail}) :
        \E order \in RegionOrders(downloads.tpt),
           last \in LastChoices(Pairs001(downloads.tpt)) :
            /\ Room
            /\ Commit("001",
                      main_001(Store, found, downloads.tpt, deletes_failed,
                               order, last, fail))

\* python restore_and_sync_rates.py [--skip-backup] [--skip-historical]
\* [--skip-ador]
Main003 ==
    \E skip_backup \in BOOLEAN, backup_found \in BOOLEAN :
      \E deletes_failed \in (IF ~skip_backup /\ backup_found
                              THEN DeleteModes ELSE {{}}),
         fail \in (IF skip_backup \/ backup_found THEN FailModes ELSE {NoFail}),
         skip_historical \in (IF skip_backup \/ backup_found
                                THEN BOOLEAN ELSE {FALSE}),
         skip_ador \in (IF skip_backup \/ backup_found THEN BOOLEAN ELSE {FALSE}) :
        \E last \in LastChoices(Pairs003(Historical)) :
            /\ Room
            /\ Commit(IF skip_backup THEN "003 --skip-backup"
                      ELSE IF backup_found THEN "003" ELSE "003 no backup",
                      main_003_backup(Store, skip_backup, backup_found,
                                      downloads.backup, deletes_failed,
                                      skip_historical, skip_ador, Historical,
                                      downloads.tpt, downloads.date, last, fail))

\* python scripts/004_add_monthly_rates.py <csv_file>
Main004 ==
    \E csv_input \in CsvInputs :
      \E fail \in (IF csv_input = "dated" THEN FailModes ELSE {NoFail}) :
        \E last \in LastChoices(Pairs004(downloads.tpt)) :
            /\ Room
            /\ Commit("004 " \o csv_input,
                      main_004(Store, csv_input, downloads.tpt, downloads.date,
                               last, fail))

\* python scripts/004b_load_historical_county_rates.py <csv_file>
Main004b ==
    \E csv_input \in CsvInputs :
      \E fail \in (IF csv_input = "absent" THEN {NoFail} ELSE FailModes) :
        \E last \in LastChoices(Pairs004b(downloads.tpt)) :
            /\ Room
            /\ Commit("004b " \o csv_input,
                      main_004b(Store, csv_input, downloads.tpt, last, fail))

NextMain ==
    \/ Main001
    \/ Main003
    \/ Main004
    \/ Main004b
    \/ Upload

SpecMain == InitMain /\ [][NextMain]_vars

----------------------------------------------------------------------------
(* The command-line flags *)

\* a directory with a one-row monthly file named for January or March 2026,
\* the first historical CSV with at most one row, and a backup file
InitFlags ==
    /\ jurisdictions \in {{}, SeedJurisdictions}
    /\ business_class_codes = {}
    /\ rate_versions = {}
    /\ rates = <<>>
    /\ run = NoRun
    /\ downloads \in [tpt : SeqsUpTo(Rows, 1) \ {<<>>}, date : {D2, D3},
                      hist1 : SeqsUpTo({RowPX24, RowTU}, 1), hist2 : {<<>>},
                      backup : Backups]
    /\ procs = <<>>
    /\ runs = 0
    /\ parsed = <<>>
    /\ deleted = {}

\* python scripts/004b_load_historical_county_rates.py [--verify] [<csv_file>]
Flags004b ==
    \E verify \in BOOLEAN, csv_input \in {"none", "absent", "dated"} :
      \E fail \in (IF csv_input = "dated" THEN FailModes ELSE {NoFail}) :
        \E last \in LastChoices(Pairs004b(downloads.tpt)) :
            /\ Room
            /\ Commit("004b" \o (IF verify THEN " --verify " ELSE " ")
                              \o csv_input,
                      main_004b_args(Store, verify, csv_input, downloads.tpt,
                                     last, fail))

\* python restore_and_sync_rates.py [--verify-only] [--skip-backup]
\* [--skip-historical] [--skip-ador], the backup file being there
Flags003 ==
    \E verify_only \in BOOLEAN, skip_backup \in BOOLEAN :
      \E deletes_failed \in (IF ~verify_only /\ ~skip_backup
                              THEN DeleteModes ELSE {{}}),
         fail \in (IF verify_only THEN {NoFail} ELSE FailModes),
         skip_historical \in BOOLEAN, skip_ador \in BOOLEAN :
        \E last \in LastChoices(Pairs003(Historical)) :
            /\ Room
            /\ Commit("003" \o (IF verify_only THEN " --verify-only" ELSE "")
                             \o (IF skip_backup THEN " --skip-backup" ELSE ""),
                      main_003_args(Store, verify_only, skip_backup, TRUE,
                                    downloads.backup, deletes_failed,
                                    skip_historical, skip_ador, Historical,
                                    downloads.tpt, downloads.date, last, fail))

NextFlags ==
    \/ Flags004b
    \/ Flags003

SpecFlags == InitFlags /\ [][NextFlags]_vars

----------------------------------------------------------------------------
(* The parse loops on their own, one data row at a time *)

\* the numbers a TaxRate cell is written with, in units of 1e-6: 0.024, 2.4,
\* 0.5, 1, 2.45678, 2.45675, 1.00005, 100, 150, 0 and -2.4
RateNumbers ==
    {24000, 2400000, 500000, 1000000, 2456780, 2456750, 1000050, 100000000,
     150000000, 0, -2400000}

\* the TaxRate cells: a number with or without '%', text that is no number,
\* and the empty cell
RateCells ==
    {Rate(n, pct) : n \in RateNumbers, pct \in BOOLEAN}
    \cup {[kind |-> "bad", n |-> 0, pct |-> FALSE],
          [kind |-> "empty", n |-> 0, pct |-> FALSE]}

\* one-row files: the row with and without its region and business code
FilesParse ==
    {<<CsvRow(rc, bc, "Restaurants", cell, Start(D1, "ims"))>> :
        rc \in {"PX", ""}, bc \in {"011", ""}, cell \in RateCells}

\* the patterns a RateStartDate cell is written in
DateFormats == {"ims", "hm", "mdy", "mdy hms", "iso", "bad"}

\* one-row files: the row with its start date in each pattern
FilesDates ==
    {<<CsvRow("PX", "011", "Restaurants", Rate(2400000, TRUE), Start(D1, f))>> :
        f \in DateFormats}

InitParse ==
    /\ jurisdictions = SeedJurisdictions
    /\ business_class_codes = {}
    /\ rate_versions = {}
    /\ rates = <<>>
    /\ run = NoRun
    /\ downloads \in [tpt : FilesParse \cup FilesDates, date : {D3},
                      hist1 : {<<>>}, hist2 : {<<>>}]
    /\ procs = <<>>
    /\ runs = 0
    /\ parsed = <<>>
    /\ deleted = {}

\* the parse loop `by` has read the file: its output is in parsed
Read(by, output) ==
    /\ parsed' = output
    /\ run' = [NoRun EXCEPT !.op = by]
    /\ UNCHANGED <<jurisdictions, business_class_codes, rate_versions, rates,
                   downloads, procs, runs, deleted>>

\* 004, 004b: parse_rate(row.get('TaxRate', '0')) for each row
ParseRate ==
    Read("parse_rate",
         [i \in 1..Len(downloads.tpt) |-> parse_rate(downloads.tpt[i].TaxRate)])

\* 004: the parse loop of add_rates_from_csv
Parse004 == Read("004", Records004(downloads.tpt))

\* 003: parse_historical_csv on the file, named with --historical-csvs
ParseHistorical == Read("003 historical", parse_historical_csv(downloads.tpt))

\* 003: the parse loop of sync_ador_csvs
ParseAdor == Read("003 ador", RecordsAdor(downloads.tpt))

\* app.py: the parse loop of parse_csv_content
ParseUpload == Read("app", RatesData(downloads.tpt))

\* the start-date parsers on the RateStartDate cell of each row
ParseDate003 ==
    Read("parse_date 003",
         [i \in 1..Len(downloads.tpt) |->
             parse_date_003(downloads.tpt[i].RateStartDate)])

ParseDate002 ==
    Read("parse_date 002",
         [i \in 1..Len(downloads.tpt) |->
             parse_date_002(downloads.tpt[i].RateStartDate)])

ParseDate004b ==
    Read("parse_date 004b",
         [i \in 1..Len(downloads.tpt) |->
             parse_date_004b(downloads.tpt[i].RateStartDate)])

NextParse ==
    \/ ParseRate
    \/ Parse004
    \/ ParseHistorical
    \/ ParseAdor
    \/ ParseUpload
    \/ ParseDate003
    \/ ParseDate002
    \/ ParseDate004b

SpecParse == InitParse /\ [][NextParse]_vars

----------------------------------------------------------------------------
(* Jurisdiction ids when rows are also removed *)

\* No loader deletes a jurisdiction; an operator of the store can.  A row
\* that rate rows refer to stays.
DeleteJurisdiction ==
    \E j \in jurisdictions :
        /\ \A i \in 1..Len(rates) : rates[i].jurisdiction_id # j.id
        /\ jurisdictions' = jurisdictions \ {j}
        /\ deleted' = deleted \cup {j}
        /\ UNCHANGED <<business_class_codes, rate_versions, rates, run,
                       downloads, procs, runs, parsed>>

InitIds ==
    /\ jurisdictions \in {{}, SeedJurisdictions}
    /\ business_class_codes = {}
    /\ rate_versions = {}
    /\ rates = <<>>
    /\ run = NoRun
    /\ downloads \in {d \in Directories : Len(d.tpt) = 1 /\ d.hist2 = <<>>}
    /\ procs = <<>>
    /\ runs = 0
    /\ parsed = <<>>
    /\ deleted = {}

\* the loaders that create jurisdictions under max id + 1, and the operator
NextIds ==
    \/ Upload
    \/ LoadJan2026Rates
    \/ RestoreAndSync
    \/ DeleteJurisdiction

SpecIds == InitIds /\ [][NextIds]_vars

----------------------------------------------------------------------------
(* The monthly files of the downloads directory *)

\* the paths one date has at most
MaxPaths == 2

\* the files a directory may hold
AdorFiles ==
    {AdorFile(date, path, rows) :
        date \in {D2, D3}, path \in 1..MaxPaths,
        rows \in {<<RowPX24>>, <<RowPX25>>}}

\* the directories: a path names one file
AdorDirectories ==
    {dir \in SUBSET AdorFiles :
        \A f \in dir, g \in dir : SortKey(f) = SortKey(g) => f = g}

InitAdor ==
    /\ jurisdictions \in {{}, SeedJurisdictions}
    /\ business_class_codes = {}
    /\ rate_versions = {}
    /\ rates = <<>>
    /\ run = NoRun
    /\ downloads \in [tpt : {<<>>}, date : {D3}, hist1 : {<<>>},
                      hist2 : {<<>>}, dir : AdorDirectories]
    /\ procs = <<>>
    /\ runs = 0
    /\ parsed = <<>>
    /\ deleted = {}

\* python restore_and_sync_rates.py --skip-backup --skip-historical; parsed
\* keeps the files the sync opened, in order
SyncAdorDirectory ==
    \E fail \in FailModes :
        LET out == main_003_ador(Store, downloads.dir, fail)
        IN  /\ Room
            /\ jurisdictions' = out.store.jur
            /\ business_class_codes' = out.store.bcc
            /\ rate_versions' = out.store.rv
            /\ rates' = out.store.rates
            /\ run' = RunRecord("003 ador directory", out)
            /\ runs' = runs + 1
            /\ parsed' = sync_ador_directory(Store, downloads.dir, fail).opened
            /\ UNCHANGED <<downloads, procs, deleted>>

NextAdor == SyncAdorDirectory

SpecAdor == InitAdor /\ [][NextAdor]_vars

----------------------------------------------------------------------------
(* Properties *)

\* the rate rows a run appended to the table
Added(before, after) == SubSeq(after, Len(before) + 1, Len(after))

\* the rows of R for one (rate_version_id, jurisdiction_id, business_code)
RowsOf(R, v, j, code) ==
    {i \in 1..Len(R) : /\ R[i].rate_version_id = v
                       /\ R[i].jurisdiction_id = j
                       /\ R[i].business_code = code}

\* C1: a second ingest of the same file under the same effective date, after
\* a first one that inserted all N records, adds no rate row and no rate
\* version and reports inserted = 0 with N duplicates skipped.
C1_SecondIngestAddsNothing ==
    [][(/\ run.op \in {"app", "004"}
        /\ run'.op = run.op
        /\ run.c.success /\ run.c.total > 0 /\ run.c.inserted = run.c.total
        /\ run'.c.success)
       => /\ rates' = rates
          /\ rate_versions' = rate_versions
          /\ run'.c.inserted = 0
          /\ run'.c.skipped = run.c.total]_vars

\* C2: after a loader run on a store without rates, the rates table holds at
\* most one row per (rate_version_id, jurisdiction_id, business_code), also
\* when the file names one (region code, business code) pair twice.
C2_OneRowPerTriple ==
    (runs = 1 /\ run.op \in {"004", "004b", "003h", "003a", "003ha"})
    => \A i \in 1..Len(rates) :
           RowsOf(rates, rates[i].rate_version_id, rates[i].jurisdiction_id,
                  rates[i].business_code) = {i}

\* C3: the store never holds two RateVersion rows for one effective_date.
C3_OneVersionPerDate ==
    \A v, w \in rate_versions : v.effective_date = w.effective_date => v = w

\* C4: a rate row staged for a county jurisdiction carries its rate in
\* county_rate and 0 in city_rate; a row staged for a city jurisdiction
\* carries its rate in city_rate and 0 in county_rate.
C4_RateInColumnOfLevel ==
    \A i \in 1..Len(run.staged) :
        \A j \in jurisdictions :
            j.id = run.staged[i].jurisdiction_id
            => /\ j.level = "county" => run.staged[i].city_rate = 0
               /\ j.level = "city" => run.staged[i].county_rate = 0

\* C10: no loader run is ended by the failure of one jurisdiction write or
\* of one batch insert.
C10_NoFailureEndsRun == run.c.raised \notin {"jur", "rates"}

\* the records the run of loader op takes from the monthly file for its
\* staging loops
RecordsOf(op) ==
    IF op = "004" THEN Records004(downloads.tpt)
    ELSE [i \in 1..Len(Kept004b(downloads.tpt)) |->
             [region_code |-> Kept004b(downloads.tpt)[i].RegionCode]]

\* C6: a run of 004 or 004b counts one missing jurisdiction for each record
\* whose region code maps to no jurisdiction, writes no jurisdiction row, and
\* adds no rate row outside the jurisdictions the store already had.
C6_MissingJurisdictionCounted ==
    [][(run'.op \in {"004", "004b"} /\ run'.c.raised = "")
       => LET recs == RecordsOf(run'.op)
              unknown == {i \in 1..Len(recs) :
                             CacheOf(jurisdictions, recs[i].region_code).id = 0}
              added == Added(rates, rates')
          IN  /\ run'.c.missing = Cardinality(unknown)
              /\ jurisdictions' = jurisdictions
              /\ Len(added) <= Len(recs) - Cardinality(unknown)
              /\ \A k \in 1..Len(added) :
                     \E j \in jurisdictions : j.id = added[k].jurisdiction_id]_vars

\* a 004 or 004b run met a record of an unknown region code and one of a
\* known region code, and inserted the latter
C6_Witness ==
    /\ run.op \in {"004", "004b"}
    /\ run.c.raised = ""
    /\ run.c.missing > 0
    /\ run.c.inserted > 0

\* C7: no step changes the level of a jurisdiction row the store holds.
\* (County rows are keyed by region_code and city rows by city_code, as
\* build_jurisdiction_cache reads them, so the update app.py makes to a row
\* it finds by city_code writes the level the row already has.)
C7_LevelNeverChanges ==
    [][\A j \in jurisdictions :
           \E k \in jurisdictions' : k.id = j.id /\ k.level = j.level]_vars

\* an upload met the region codes of a stored city (updated in place) and of
\* a stored county
C7_Witness ==
    /\ run.op = "app"
    /\ run.c.inserted > 0
    /\ \E i \in 1..Len(downloads.tpt) : downloads.tpt[i].RegionCode = "PX"
    /\ \E i \in 1..Len(downloads.tpt) : downloads.tpt[i].RegionCode = "MAR"
    /\ Cardinality({j \in jurisdictions : j.city_code = "PX"}) = 1
    /\ \E j \in jurisdictions :
           j.id = 1 /\ j.level = "county" /\ j.region_code = "MAR"

\* C8: when a run of 002 or 004 lost a batch insert, a second run of the
\* same loader on the same file that meets no failure leaves every rate row
\* of the interrupted run in the rates table.
C8_RerunCompletesInterruptedRun ==
    [][(/\ run.op \in {"002", "004"}
        /\ run'.op = run.op
        /\ (run.c.raised = "rates" \/ run.c.insert_errors > 0)
        /\ run'.c.raised = "" /\ run'.c.insert_errors = 0)
       => \A i \in 1..Len(run.staged) :
              \E k \in 1..Len(rates') : rates'[k] = run.staged[i]]_vars

\* the records of the first and of the second historical file
HistFirst == parse_historical_csv(downloads.hist1)
HistSecond == parse_historical_csv(downloads.hist2)

\* the (effective_date, region_code, business_code) keys both files hold
InBothFiles ==
    {HistKey(HistFirst[i]) : i \in 1..Len(HistFirst)}
        \cap {HistKey(HistSecond[i]) : i \in 1..Len(HistSecond)}

\* the rate of the last record of the second file for a key
LaterRate(key) ==
    LET same == SelectSeq(HistSecond, LAMBDA r : HistKey(r) = key)
    IN  same[Len(same)].rate

\* main's staged record set holds one record for the key, with the later rate
StagedOnce(key) ==
    LET unique == LastWins(HistFirst \o HistSecond, {})
        same   == SelectSeq(unique, LAMBDA r : HistKey(r) = key)
    IN  Len(same) = 1 /\ same[1].rate = LaterRate(key)

\* the rows of R stored for a key, under versions V and jurisdictions J
StoredFor(R, V, J, key) ==
    {i \in 1..Len(R) :
        /\ \E v \in V : v.id = R[i].rate_version_id /\ v.effective_date = key[1]
        /\ R[i].jurisdiction_id = CacheOf(J, key[2]).id
        /\ R[i].business_code = key[3]}

\* C5 as stated: after a historical merge of two files that share a key, the
\* staged record set holds one record for the key with the later file's
\* rate, and the rates table holds that rate for the key.
C5_LaterRateStored ==
    (run.op = "003h" /\ run.c.raised = "")
    => \A key \in InBothFiles :
           /\ StagedOnce(key)
           /\ StoredFor(rates, rate_versions, jurisdictions, key) # {}
           /\ \A i \in StoredFor(rates, rate_versions, jurisdictions, key) :
                  rates[i].county_rate + rates[i].city_rate = LaterRate(key)

\* the rows of R stored for a key under the version with id v
StoredUnder(R, J, v, key) ==
    {i \in 1..Len(R) :
        /\ R[i].rate_version_id = v
        /\ R[i].jurisdiction_id = CacheOf(J, key[2]).id
        /\ R[i].business_code = key[3]}

\* the version the merge works under for a date: the one the lookup by
\* effective_date gives, after the merge made sure there is one
VersionUsed(V, d) == VersionsOf(V, d)[1]

\* C5, amended: the staged record set holds one record for the key with the
\* later file's rate; when the store held no row for the key before the
\* merge, the key's one stored row has that rate.  The merge looks the key
\* up under the version it uses for the date: when that version held no row
\* for the key, the merge writes one under it, with the later file's rate;
\* when it held one, the merge skips the key, and the rows stored for the
\* key are the same rows with the same rates after the merge.
C5_LaterRateWritten ==
    [][(run'.op = "003h" /\ run'.c.raised = "")
       => \A key \in InBothFiles :
              /\ StagedOnce(key)
              /\ StoredFor(rates, rate_versions, jurisdictions, key) = {}
                 => \E i \in 1..Len(rates') :
                        /\ StoredFor(rates', rate_versions', jurisdictions', key) = {i}
                        /\ rates'[i].county_rate + rates'[i].city_rate
                               = LaterRate(key)
              /\ StoredUnder(rates, jurisdictions',
                             VersionUsed(rate_versions', key[1]), key) = {}
                 => \E i \in 1..Len(rates') :
                        /\ StoredUnder(rates', jurisdictions',
                                       VersionUsed(rate_versions', key[1]), key) = {i}
                        /\ rates'[i].county_rate + rates'[i].city_rate
                               = LaterRate(key)
              /\ StoredUnder(rates, jurisdictions',
                             VersionUsed(rate_versions', key[1]), key) # {}
                 => /\ StoredFor(rates', rate_versions', jurisdictions', key)
                           = StoredFor(rates, rate_versions, jurisdictions, key)
                    /\ \A i \in StoredFor(rates, rate_versions, jurisdictions, key) :
                           rates'[i] = rates[i]]_vars

\* a merge took 0.024 from the first file and 0.025 from the second for
\* (2025-01-01, PX, 011) and stored 0.025
C5_Witness ==
    /\ run.op = "003h"
    /\ run.c.raised = ""
    /\ downloads.hist1 = <<RowPX24>>
    /\ downloads.hist2 = <<RowPX25>>
    /\ <<D1, "PX", "011">> \in InBothFiles
    /\ \E i \in 1..Len(rates) :
           /\ StoredFor(rates, rate_versions, jurisdictions, <<D1, "PX", "011">>) = {i}
           /\ rates[i].city_rate = FloatRate(RowPX25.TaxRate)
           /\ rates[i].city_rate # FloatRate(RowPX24.TaxRate)

\* C9: a loader that had the store to itself from its read of the largest
\* id to its insert holds an id no row of the table has.
C9_SerialIdsFresh ==
    \A p \in Procs :
        (procs[p].pc \in {"insert", "rejected"} /\ procs[p].alone)
        => /\ procs[p].pc = "insert"
           /\ procs[p].new_id \notin IdsFor(p)

\* two loaders running at once hold the same max + 1 for two different new
\* records of one table
C9_Witness ==
    \E p, q \in Procs :
        /\ p # q
        /\ procs[p].pc = "insert" /\ procs[q].pc = "insert"
        /\ procs[p].table = procs[q].table
        /\ procs[p].new_id = procs[q].new_id
        /\ (procs[p].date # procs[q].date \/ procs[p].code # procs[q].code)

----------------------------------------------------------------------------
(* Missing inputs *)

\* no table of the store is written by the step
StoreUntouched ==
    UNCHANGED <<jurisdictions, business_class_codes, rate_versions, rates>>

\* C11, as stated: a run of 003 without --skip-backup whose backup file is
\* absent, and a run of 004 or 004b whose CSV file is not found or whose
\* file name holds no 8-digit date, ends without a write to the store.
C11_NoWriteOnUnusableInput ==
    [][run'.op \in {"003 no backup", "004 absent", "004 undated",
                    "004b absent", "004b undated"}
       => StoreUntouched]_vars

\* C11, amended: a run of 003 without --skip-backup whose backup file is
\* absent, a run of 004 whose CSV file is not found or whose file name holds
\* no 8-digit date, and a run of 004b whose CSV file is not found, end
\* without a write to the store.  (004b takes its dates from the rows and
\* loads a file of any name.)
C11_NoWriteOnMissingInput ==
    [][run'.op \in {"003 no backup", "004 absent", "004 undated", "004b absent"}
       => StoreUntouched]_vars

\* a run was refused for its input on a store that a loader had filled
C11_Witness ==
    /\ run.op \in {"003 no backup", "004 absent", "004 undated", "004b absent"}
    /\ run.c.raised \in {"backup", "file", "filename"}
    /\ runs = 2
    /\ rates # <<>>

----------------------------------------------------------------------------
(* The rate parser *)

\* the rates the rule of C12 allows for a number written n (units of 1e-6):
\* the number over 100 when it is greater than 1, the number itself
\* otherwise, rounded to 6 fractional digits; in units of 1e-8.  The rule
\* names no way to round a 5 in the seventh place: both neighbours count.
ClaimedRates(n) ==
    LET v == IF n > 1000000 THEN n ELSE n * 100
        q == v \div 100
        r == v % 100
    IN  IF r > 50 THEN {(q + 1) * 100}
        ELSE IF r = 50 THEN {q * 100, (q + 1) * 100}
        ELSE {q * 100}

\* the data row a one-record output was made of
Row1 == downloads.tpt[1]

\* C12: for every rate string that is a number with an optional trailing
\* percent sign, the parser returns the number over 100 when it is greater
\* than 1 and the number itself otherwise, rounded to 6 fractional digits
\* ("2.4%", "2.4" and "0.024" give 0.024, "0.5%" gives 0.5): here for
\* parse_rate of 004 and for the parse loop of app.py.
C12_RateDividedAndRounded ==
    /\ (run.op = "parse_rate" /\ IsFloat(Row1.TaxRate))
           => parsed[1] \in ClaimedRates(Row1.TaxRate.n)
    /\ (run.op = "app" /\ parsed # <<>>)
           => parsed[1].city_rate \in ClaimedRates(Row1.TaxRate.n)

\* the rates of the records in parsed
ParsedRates ==
    IF run.op = "app" THEN {parsed[i].city_rate : i \in 1..Len(parsed)}
    ELSE IF run.op = "parse_rate" THEN {}
    ELSE {parsed[i].rate : i \in 1..Len(parsed)}

\* C13: every normalized record that a parse loop produces has a rate in
\* [0, 1], whatever number the rate string holds.
C13_RecordRateInUnitInterval ==
    \A rate \in ParsedRates : 0 <= rate /\ rate <= 100000000

\* C14: a row with an empty region code, an empty business code or a
\* resolved rate that is not positive is not in the output of a parse loop.
C14_DroppedRowsNotInOutput ==
    (run.op \in {"004", "003 historical", "003 ador", "app"} /\ parsed # <<>>)
        => /\ Row1.RegionCode # ""
           /\ Row1.BusinessCode # ""
           /\ \A rate \in ParsedRates : rate > 0

----------------------------------------------------------------------------
(* Shape of the stored rows *)

\* C15: every rate row in the store has state_rate 0 and exactly one of
\* county_rate and city_rate different from 0.
C15_OneRateColumnSet ==
    \A i \in 1..Len(rates) :
        /\ rates[i].state_rate = 0
        /\ (rates[i].county_rate # 0) # (rates[i].city_rate # 0)

\* the external codes of a jurisdiction row
CodesOf(j) == {j.city_code, j.region_code} \ {""}

\* C16: no two jurisdiction rows share an external code, be it the
\* city_code or the region_code of either.
C16_ExternalCodeUnique ==
    \A j1 \in jurisdictions, j2 \in jurisdictions :
        j1 # j2 => CodesOf(j1) \cap CodesOf(j2) = {}

----------------------------------------------------------------------------
(* Jurisdiction ids *)

IdsOf(J) == {j.id : j \in J}

\* C17: a jurisdiction created by a step gets an id above every id the
\* table held before the step, the ids of one run are distinct, and an id
\* that a deleted jurisdiction had is not given to another one.
C17_JurisdictionIdsNeverReused ==
    [][\A j \in jurisdictions' :
          j.id \notin IdsOf(jurisdictions)
              => /\ \A old \in jurisdictions : j.id > old.id
                 /\ \A other \in jurisdictions' : other.id = j.id => other = j
                 /\ j.id \notin IdsOf(deleted)]_vars

----------------------------------------------------------------------------
(* References between the tables *)

\* C18: each rate row in the store refers to a rate version and to a
\* jurisdiction that are in the store; also after a truncation, a restore
\* or a load that was cut short.  The restore of 003 writes the rate rows
\* of the dump without a look at the jurisdictions table.
C18_RateRowsReferToStoredRows ==
    \A i \in 1..Len(rates) :
        /\ rates[i].rate_version_id \in {v.id : v \in rate_versions}
        /\ rates[i].jurisdiction_id \in IdsOf(jurisdictions)

----------------------------------------------------------------------------
(* The business-code step *)

\* the (code, name) pairs the business-code step of a loader is given
PairsOf(op) ==
    IF op = "004" THEN Pairs004(downloads.tpt)
    ELSE IF op = "004b" THEN Pairs004b(downloads.tpt)
    ELSE IF op = "app"
    THEN {<<RatesData(downloads.tpt)[i].business_code,
            RatesData(downloads.tpt)[i].business_name>> :
             i \in 1..Len(RatesData(downloads.tpt))}
    ELSE {}

\* the table holds a row for every code of the batch
AllUpserted(op) ==
    \A p \in PairsOf(op) : \E b \in business_class_codes : b.code = p[1]

\* C19: after the business-code step of a load, a code of the batch is in
\* business_class_codes at most once, a row the step wrote has the supplied
\* name, or "Business Code {code}" for an empty name, as its description,
\* and the step repeated on a table that holds all codes of the batch
\* leaves the table as it is.
C19_BusinessCodeStepIdempotent ==
    [][\A op \in {"004", "004b", "app"} :
          run'.op = op =>
              /\ \A p \in PairsOf(op) :
                     Cardinality({b \in business_class_codes' : b.code = p[1]}) <= 1
              /\ \A b \in business_class_codes' \ business_class_codes :
                     \E p \in PairsOf(op) :
                         b = [code |-> p[1], description |-> Description(p[1], p[2])]
              /\ (run.op = op /\ AllUpserted(op))
                     => business_class_codes' = business_class_codes]_vars

----------------------------------------------------------------------------
(* The two-row upload *)

\* the store is empty and the file at hand is PX/011 at 2.4% and TU/011 at
\* 2.3%, to be loaded for 2026-03-01
TwoRowsIntoEmptyStore ==
    /\ jurisdictions = {} /\ business_class_codes = {}
    /\ rate_versions = {} /\ rates = <<>>
    /\ downloads.tpt = <<RowPX24, RowTU>>
    /\ downloads.date = Date(2026, 3, 1)

\* the step is the upload of the file at hand with no store call rejected
UploadUndisturbed ==
    Commit("app", parse_csv_content(Store, downloads.tpt, downloads.date, NoFail))

\* the id of the jurisdiction with that city_code (0 when there is none)
CityId(J, code) ==
    IF \E j \in J : j.city_code = code
    THEN (CHOOSE j \in J : j.city_code = code).id ELSE 0

\* the upload left 1 rate version, 2 jurisdictions, 1 business code and 2
\* rate rows with city_rate 0.024 and 0.023
TwoRowsStored ==
    /\ Cardinality(rate_versions') = 1
    /\ \A v \in rate_versions' : v.effective_date = Date(2026, 3, 1)
    /\ Cardinality(jurisdictions') = 2
    /\ {j.city_code : j \in jurisdictions'} = {"PX", "TU"}
    /\ business_class_codes' =
           {[code |-> "011", description |-> "Restaurants"]}
    /\ Len(rates') = 2
    /\ \A i \in 1..2 :
           /\ rates'[i].rate_version_id \in {v.id : v \in rate_versions'}
           /\ rates'[i].business_code = "011"
           /\ rates'[i].state_rate = 0 /\ rates'[i].county_rate = 0
    /\ rates'[1].jurisdiction_id = CityId(jurisdictions', "PX")
    /\ rates'[1].city_rate = 2400000
    /\ rates'[2].jurisdiction_id = CityId(jurisdictions', "TU")
    /\ rates'[2].city_rate = 2300000

----------------------------------------------------------------------------
(* Flags that promise to leave the store alone *)

\* C21: a run of 004b with --verify writes nothing to the store, whether or
\* not a CSV path is given as well.
C21_VerifyWritesNothing ==
    [][run'.op \in {"004b --verify none", "004b --verify absent",
                    "004b --verify dated"}
       => StoreUntouched]_vars

\* no row of rates or rate_versions is gone after the step
NoDelete ==
    /\ rate_versions \subseteq rate_versions'
    /\ Len(rates') >= Len(rates)
    /\ SubSeq(rates', 1, Len(rates)) = rates

\* C22: a run of 003 with --skip-backup deletes no row of rates or
\* rate_versions whatever the other flags are, and a run with --verify-only
\* writes nothing to the store.
C22_SkipBackupDeletesNothing ==
    [][/\ run'.op \in {"003 --skip-backup", "003 --verify-only --skip-backup"}
            => NoDelete
       /\ run'.op \in {"003 --verify-only", "003 --verify-only --skip-backup"}
            => StoreUntouched]_vars

\* a run with --skip-backup added rows to a store whose earlier rows are
\* still there
C22_Witness ==
    /\ run.op = "003 --skip-backup"
    /\ runs = 2
    /\ run.c.inserted > 0
    /\ Len(rates) > run.c.inserted

----------------------------------------------------------------------------
(* Rejected batches *)

\* every row the run staged is in the table
AllStagedStored ==
    \A i \in 1..Len(run.staged) :
        \E j \in 1..Len(rates) : rates[j] = run.staged[i]

\* C23: when the store rejects a batch insert of 004, of the historical
\* merge of 003 or of the monthly sync of 003, the rows of the batch are
\* inserted one by one, so a row is lost only when its own insert is
\* rejected.  (The store rejects at most one call of a run here, so the
\* insert of a single row after a rejected batch is always accepted.)
C23_RejectedBatchRetried ==
    (run.op \in {"004", "003a", "003h", "003ha"} /\ run.c.raised = "")
        => AllStagedStored

----------------------------------------------------------------------------
(* The versions-created counter *)

\* C24: the versions-created counter of a run of 003 (historical merge,
\* monthly sync or both) that no exception ended equals the number of
\* rate_versions rows the run inserted.
C24_VersionsCreatedCounted ==
    [][(run'.op \in {"003a", "003h", "003ha"} /\ run'.c.raised = "")
       => run'.c.versions_created
              = Cardinality(rate_versions') - Cardinality(rate_versions)]_vars

----------------------------------------------------------------------------
(* Version ids and dates *)

\* C25: of two rate versions created in the same run the one with the
\* earlier effective date has the smaller id.
C25_EarlierDateSmallerId ==
    [][\A v \in rate_versions' \ rate_versions,
          w \in rate_versions' \ rate_versions :
           v.effective_date < w.effective_date => v.id < w.id]_vars

----------------------------------------------------------------------------
(* Batches *)

RECURSIVE Flatten(_)
\* the rows of a list of insert calls, in the order sent
Flatten(calls) ==
    IF calls = <<>> THEN <<>> ELSE Head(calls) \o Flatten(Tail(calls))

\* C26: the rows a run of 001 or 004 staged are sent in insert calls of at
\* most BatchSize rows (500 in the source) that partition the staged list
\* in order: the calls made, taken together, send the list, each row once.
\* In 001 a rejected call ends the loop of its date, and the later batches
\* of the date are not sent.
C26_BatchesPartitionStaged ==
    run.op \in {"001", "004 dated"} =>
        /\ \A k \in 1..Len(run.sent) : Len(run.sent[k]) \in 1..BatchSize
        /\ Flatten(run.sent) = run.staged

----------------------------------------------------------------------------
(* The start-date parsers *)

\* the date the claimed parser gives: M/D/Y h:m:s AM/PM, M/D/Y H:M and M/D/Y
\* match, nothing else does; 0 stands for "no record"
ClaimedDate(start) ==
    IF start.fmt \in {"ims", "hm", "mdy"} THEN start.d ELSE 0

\* C27: the start-date parsers of 003, 002 and 004b accept a cell written
\* as M/D/Y h:m:s AM/PM, M/D/Y H:M or M/D/Y and give its date, and give no
\* date for a cell that matches none of the three.
C27_StartDatePatterns ==
    run.op \in {"parse_date 003", "parse_date 002", "parse_date 004b"}
        => parsed = <<ClaimedDate(Row1.RateStartDate)>>

----------------------------------------------------------------------------
(* Several monthly files of one date *)

\* the first file of date d in sorted (date, path) order
FirstOfDate(dir, d) ==
    CHOOSE f \in dir :
        f.date = d /\ \A g \in dir : g.date = d => f.path <= g.path

\* the file dates of the directory
FileDates == {f.date : f \in downloads.dir}

----------------------------------------------------------------------------
(* The counters of 004 *)

\* C29: for every run of 004 that reports its results, the rows inserted,
\* the duplicates skipped, the rows skipped for a missing jurisdiction and
\* the rows of rejected batches add up to the records parsed, and the
\* inserted count reported is the number of rows the run added to rates.
C29_CountersAddUp ==
    [][(run'.op = "004" /\ run'.c.raised = "")
       => /\ run'.c.inserted = Len(rates') - Len(rates)
          /\ run'.c.inserted + run'.c.skipped + run'.c.missing
                + (Len(run'.staged) - (Len(rates') - Len(rates)))
                = run'.c.total
          /\ run'.c.total = Len(Records004(downloads.tpt))]_vars

\* a run of 004 staged two rows and saw the batch of one of them rejected
C29_Witness ==
    /\ run.op = "004"
    /\ run.c.raised = ""
    /\ Len(run.staged) = 2
    /\ run.c.inserted = 1
    /\ run.c.insert_errors = 1

----------------------------------------------------------------------------
(* The result of an upload *)

\* C30: an upload whose result has success False leaves every table of the
\* store as it was, and after an upload whose result has success True a
\* rate version of the effective date is in the store.
C30_FailedUploadWritesNothing ==
    [][run'.op = "app"
       => /\ ~run'.c.success => StoreUntouched
          /\ run'.c.success
                => \E v \in rate_versions' : v.effective_date = downloads.date]_vars

============================================================================
